---- MODULE Spec2Model ----
(***************************************************************************)
(* The metadata deploy pipeline of the Salesforce MCP server: the tool     *)
(* functions of app/mcp/tools/dynamic_tools.py (facade), the deploy        *)
(* submitter _execute_metadata_rest_deploy_multipart and the poller        *)
(* _poll_metadata_rest_deploy_status.  One tool call runs at a time; the   *)
(* platform (existence queries, describe, submit, status checks) answers   *)
(* nondeterministically.  Every request the call issues is appended to     *)
(* the log `calls`.                                                        *)
(*                                                                         *)
(* Strings that the code inspects character by character (API names) are   *)
(* tuples of one-character strings; JSON null is the string "null".        *)
(* Time is in whole seconds on a monotonic clock; every request of one     *)
(* call takes the same number of seconds (latency), time.sleep(i) lasts i. *)
(* A deploy job that ends Succeeded leaves the component on the platform.  *)
(*                                                                         *)
(* Beside the tool call, the module holds the parts the tools rest on,     *)
(* each with a specification of its own: the package assembler             *)
(* _generate_package_xml (SpecPkg), get_salesforce_connection with its     *)
(* thread-local cache (SpecConn), the fetch tools called one after another *)
(* (SpecFetch), and deploy_metadata of consolidated_metadata.py, which     *)
(* hands the call to a create_X or upsert_X tool (SpecMeta).  The token    *)
(* age check of get_salesforce_connection runs against a clock in          *)
(* SpecToken, and two threads with switch_active_org in SpecThreads.  The  *)
(* retry decorator (SpecRetry), bulk_insert_records (SpecBulk),            *)
(* create_lwc_component (SpecLwc) and execute_soql_query (SpecSoql) are    *)
(* modelled the same way.                                                  *)
(***************************************************************************)
EXTENDS Integers, Sequences, FiniteSets, TLC

\* ---------------------------------------------------------------- bounds
\* Longest extra latency, in seconds, of one status-check request.
MaxDelay == 1
\* Largest timeout_seconds / interval_seconds of a direct poll call.
MaxTimeout == 4
MaxInterval == 2
\* Longest members list handed to the package assembler.
MaxMembers == 3
\* Largest max_attempts a retry decorator is given.
MaxAttempts == 3
\* Last second of the clock that token ages are read from, and the largest
\* token_refresh_threshold_seconds configured.
MaxClock == 3
MaxThreshold == 2

\* ------------------------------------------------------ program constants
\* _poll_metadata_rest_deploy_status(..., timeout_seconds=300, interval_seconds=5)
PollTimeoutDefault == 300
PollIntervalDefault == 5
\* bulk_insert_records: time.sleep(5) between two status checks
BulkSleepSeconds == 5
\* SalesforceConfig.token_refresh_threshold_seconds
TokenRefreshThresholdDefault == 5400

\* ------------------------------------------------------------- characters
Letters == {"A", "c", "o", "u", "n", "t", "P", "g", "B"}
Digits == {"1"}

\* str.isalnum(): non-empty and every character a letter or a digit.
isalnum(s) == Len(s) > 0 /\ \A i \in 1..Len(s) : s[i] \in Letters \cup Digits

\* str.isalpha() of one character.
isalpha(ch) == ch \in Letters

\* s.replace("_", "")
replace_underscore(s) == SelectSeq(s, LAMBDA ch : ch # "_")

\* s.endswith("__c")
endswith__c(s) ==
    /\ Len(s) >= 3
    /\ s[Len(s) - 2] = "_" /\ s[Len(s) - 1] = "_" /\ s[Len(s)] = "c"

\* s.replace("-", "")
replace_hyphen(s) == SelectSeq(s, LAMBDA ch : ch # "-")

\* create_lwc_component: component_name and
\* component_name.replace("_", "").replace("-", "").isalnum()
ValidLwcName(n) == Len(n) > 0 /\ isalnum(replace_hyphen(replace_underscore(n)))

\* create_apex_class / create_apex_trigger: name.replace("_", "").isalnum()
ValidApexName(n) == isalnum(replace_underscore(n))

\* upsert_custom_field._valid_custom_name
_valid_custom_name(n) ==
    /\ endswith__c(n)
    /\ LET core == SubSeq(n, 1, Len(n) - 3)
       IN  /\ Len(core) > 0
           /\ isalpha(core[1])
           /\ isalnum(replace_underscore(core))

StandardObjects == {<<"A", "c", "c", "o", "u", "n", "t">>}

\* upsert_custom_field._normalize_object_name
_normalize_object_name(o) ==
    IF o \in StandardObjects THEN o
    ELSE IF endswith__c(o) THEN o ELSE o \o <<"_", "_", "c">>

\* field_api_name if field_api_name.endswith("__c") else field_api_name + "__c"
FieldName(n) == IF endswith__c(n) THEN n ELSE n \o <<"_", "_", "c">>

\* ------------------------------------------------------------------ inputs
NameInputs == { <<"P", "g">>, <<"1", "B", "!">>, <<"_">> }
ObjectInputs == { <<"A", "c", "c", "o", "u", "n", "t">>, <<"1", "B", "!">> }
NoObject == <<>>
JobIds == {"0Af1", "0Af2"}

\* Statuses a finished deploy job reports, and its diagnostics.
TerminalStatuses == {"Succeeded", "SucceededPartial", "Failed", "Aborted"}
DetailValues == {"null", "componentFailures"}

CreateTools == {"create_apex_class", "create_apex_trigger", "create_flow",
                "create_permission_set"}
UpsertTools == {"upsert_apex_class", "upsert_apex_trigger", "upsert_flow",
                "upsert_custom_field"}
\* The upsert tools whose docstring says "only updates an existing ...".
UpdateOnlyTools == {"upsert_apex_class", "upsert_apex_trigger"}
DeployTools == CreateTools \cup UpsertTools
ReadTools == {"get_metadata_deploy_status", "fetch_object_metadata"}
Tools == DeployTools \cup ReadTools
FetchTools == {"fetch_apex_class", "fetch_custom_field"}
PollerCall == "_poll_metadata_rest_deploy_status"

NONE == [none |-> TRUE]

\* Sequences over S of length at most n.
SeqUpTo(S, n) == UNION {[1..k -> S] : k \in 0..n}

VARIABLES
    tool,              \* the tool function being executed
    name,              \* its name argument (class_name, flow_name, field_api_name, ...)
    table,             \* its object argument (table_name, object_name)
    pc,                \* position inside the tool function
    sf_connection,     \* local.sf_connection: the user id (org) the cached
                       \* connection was built for, or "None"
    exists,            \* the platform holds a component with this name
    existed,           \* value of exists when the call started
    calls,             \* requests issued by the current call, in order
    job_id,            \* dep["id"] returned by the submitter (or the job_id argument)
    status,            \* value returned by the poller
    resp,              \* JSON object returned by the tool
    raised,            \* an exception left the called function
    timeout_seconds,   \* poller arguments
    interval_seconds,
    elapsed,           \* time.time() - start, as the deadline check reads it
    latency,           \* seconds one request of this call takes
    members,           \* _generate_package_xml: its arguments ...
    metadata_type,
    api_version,
    pkg_xml,           \* ... and the document it returned
    prev,              \* the previous fetch call: its arguments and response
    changed_prev,      \* the platform changed since that call started
    changed_now,       \* the platform changed since the current call started
    operation,         \* deploy_metadata: its operation argument ("none": the
                       \* tool was called directly)
    stored_tokens,     \* get_stored_tokens(): user ids, in insertion order
    active_org,        \* multi_org._active_org["user_id"], or "None"
    user_id,           \* argument of the last get_salesforce_connection call
    returned,          \* what that call returned: a connection's user id,
                       \* "raised", or "none" before any call
    returned_age,      \* age of the token that connection carried, -1 if none
    now,               \* time.time()
    login_timestamp,   \* token_data['login_timestamp'] of each user's token
    token_refresh_threshold_seconds,
    sf_session,        \* login_timestamp of the token in local.sf_connection
    thread,            \* the thread that is running
    parked,            \* local.sf_connection and its token's timestamp as the
                       \* thread that is not running holds them
    max_attempts,      \* retry(...): its arguments ...
    backoff,
    exceptions,        \* ... the exception types it catches
    on_retry,          \* ... and whether a callback was passed
    attempt,           \* retry.wrapper: failed invocations so far
    rpc,               \* retry.wrapper: what it does next
    trace,             \* invocations, callback calls and sleeps of the wrapper, in order
    outcome,           \* how the wrapper call ended
    records,           \* bulk_insert_records: number of records passed
    wait_for_completion,
    query,             \* execute_soql_query: its arguments
    use_tooling_api

\* The tool call in progress and the platform it talks to.
tool_vars == <<tool, name, table, pc, sf_connection, exists, existed, calls, job_id,
               status, resp, raised, timeout_seconds, interval_seconds, elapsed, latency>>

\* A call of the package assembler.
pkg_vars == <<members, metadata_type, api_version, pkg_xml>>

\* What an observer of two successive fetch calls remembers.
hist_vars == <<prev, changed_prev, changed_now>>

\* The stored sessions and a direct call of get_salesforce_connection.
session_vars == <<returned_age, now, login_timestamp, token_refresh_threshold_seconds,
                  sf_session, thread, parked>>

conn_vars == <<stored_tokens, active_org, user_id, returned, session_vars>>

\* A call of a function wrapped by the retry decorator.
retry_vars == <<max_attempts, backoff, exceptions, on_retry, attempt, rpc, trace, outcome>>

\* Arguments of the data tools.
data_vars == <<records, wait_for_completion, query, use_tooling_api>>

util_vars == <<retry_vars, data_vars>>

vars == <<tool_vars, pkg_vars, hist_vars, operation, conn_vars, util_vars>>

\* ----------------------------------------------------------- log helpers
Call(kind, job, reply) == [kind |-> kind, job |-> job, reply |-> reply]

Count(kind) == Cardinality({i \in 1..Len(calls) : calls[i].kind = kind})

CountReply(kind, reply) ==
    Cardinality({i \in 1..Len(calls) : calls[i].kind = kind /\ calls[i].reply = reply})


\* The call did not get all its answers: no connection (a fetch tool that
\* connects always sends a request), or a request that failed.
CallFailed ==
    \/ calls = <<>>
    \/ \E i \in 1..Len(calls) : calls[i].reply = "error"

\* upsert_custom_field: is_update = existing_field is not None
IsUpdate == \E i \in 1..Len(calls) : calls[i].kind = "describe" /\ calls[i].reply = "found"

\* ------------------------------------------------------ response builders
\* d.get(k) of a JSON object: null when the key is absent.
Get(d, k) == IF k \in DOMAIN d THEN d[k] ELSE "null"

\* json.dumps({"success": False, "error": str(e)})
ErrorResp(msg) == [success |-> FALSE, error |-> msg]

\* Variant: the job id is not copied into the poller's result.
WithJobId_dropped(st, id) == st

\* status["job_id"] = dep["id"]  (deploy_*_internal, create_flow, ...)
WithJobId(st, id) ==
    [k \in DOMAIN st \cup {"job_id"} |-> IF k = "job_id" THEN id ELSE st[k]]

\* The "operation" value each facade tool reports.
OperationName(t) ==
    CASE t = "create_apex_class"   -> "create_apex_class"
      [] t = "upsert_apex_class"   -> "update_apex_class"
      [] t = "create_apex_trigger" -> "create_apex_trigger"
      [] t = "upsert_apex_trigger" -> "update_apex_trigger"
      [] OTHER                     -> "null"

\* Response of create_apex_class / upsert_apex_class / create_apex_trigger /
\* upsert_apex_trigger, built from res = deploy_*_internal(...).
FacadeDeployResp(t, n, res) ==
    [success    |-> res.success,
     operation  |-> OperationName(t),
     class_name |-> n,
     message    |-> IF res.success THEN "Successfully deployed" ELSE "Failed to deploy",
     job_id     |-> Get(res, "job_id"),
     errors     |-> IF ~res.success THEN Get(res, "details") ELSE "null"]

\* Response of create_lwc_component, built from
\* res = deploy_lwc_component_internal(...).
LwcCreateResp(n, res) ==
    [success        |-> res.success,
     operation      |-> "create_lwc_component",
     component_name |-> n,
     message        |-> IF res.success THEN "Successfully created LWC component"
                        ELSE "Failed to create LWC component",
     job_id         |-> Get(res, "job_id"),
     errors         |-> IF ~res.success THEN Get(res, "details") ELSE "null"]

\* upsert_custom_field: response when final_status.success is false.
FieldFailureResp(op, o, n, id, st) ==
    [success     |-> FALSE,
     operation   |-> op,
     object_name |-> o,
     field_name  |-> n,
     job_id      |-> id,
     message     |-> "Field deployment failed",
     errors      |-> Get(st, "details")]

\* upsert_custom_field: fls_result as the grant steps fill it in.
FlsResult(log) ==
    LET Has(kind, reply) ==
            \E i \in 1..Len(log) : log[i].kind = kind /\ log[i].reply = reply
    IN  [permission_set_id    |-> IF Has("ps_query", "found") \/ Has("ps_create", "ok")
                                  THEN "ps_id" ELSE "null",
         assigned_to_me       |-> Has("psa_query", "found") \/ Has("psa_create", "ok"),
         field_permissions_id |-> IF Has("fp_create", "ok") \/ Has("fp_update", "ok")
                                  THEN "fp_id" ELSE "null"]

\* Variant: an error in the grant is reported as a failed call.
FlsErrorResp_failed(op, o, n, id, fls) ==
    [success |-> FALSE, error |-> "FLS grant step encountered an error"]

\* upsert_custom_field: response of the grant's `except Exception as fls_err`.
FlsErrorResp(op, o, n, id, fls) ==
    [success     |-> TRUE,
     operation   |-> op,
     object_name |-> o,
     field_name  |-> n,
     job_id      |-> id,
     message     |-> "Field deployed, but FLS grant step encountered an error",
     errors      |-> "null",
     fls_grant   |-> fls]

\* upsert_custom_field: response once the field is deployed and granted.
FieldSuccessResp(op, o, n, id, fls) ==
    [success     |-> TRUE,
     operation   |-> op,
     object_name |-> o,
     field_name  |-> n,
     job_id      |-> id,
     message     |-> "Successfully deployed and granted",
     errors      |-> "null",
     fls_grant   |-> fls]

FieldOperation(is_update) ==
    IF is_update THEN "update_custom_field" ELSE "create_custom_field"

\* ------------------------------------------------------ poller decisions
\* Variant: the deadline is honoured two seconds late.
DeadlinePassed_late(e, k) == e > k + 2

\* if time.time() - start > timeout_seconds
DeadlinePassed(e, k) == e > k

\* Variant: only a full success counts as success.
PollSuccess_strict(st) == st = "Succeeded"

\* result["status"] in {"Succeeded", "SucceededPartial"}
PollSuccess(st) == st \in {"Succeeded", "SucceededPartial"}

\* the dict returned when the platform reports done
DoneOutcome(st, d) == [success |-> PollSuccess(st), status |-> st, details |-> d]

\* Variant: a passed deadline is reported as a failed job.
TimeoutOutcome_failed == [success |-> FALSE, status |-> "Failed"]

\* the dict returned when the deadline has passed
TimeoutOutcome == [success |-> FALSE, status |-> "Timeout"]

\* Variant: the status URL is built from a fixed job id.
PollTarget_stale(async_process_id) == "0Af1"

\* endpoint = .../metadata/deployRequest/{async_process_id}
PollTarget(async_process_id) == async_process_id

\* time.sleep(interval_seconds)
SleepTime(i) == i

\* HTTP method of each kind of request: requests.post for the submit,
\* requests.get for a status check.
Method(kind) == IF kind = "submit" THEN "POST" ELSE "GET"

\* Variant: a body without an id is accepted.
MissingId_ignored(reply) == FALSE

\* _execute_metadata_rest_deploy_multipart: if not data.get("id")
MissingId(reply) == reply = "noid"


\* ------------------------------------------------------ package assembler
\* A document is the sequence of tags and texts that etree.tostring writes.
Tok(kind, v) == [kind |-> kind, v |-> v]

\* Text is written with "&" escaped.
XmlEscape(text) == IF text = "A&B" THEN "A&amp;B" ELSE text

\* etree.SubElement(parent, tag).text = text
Leaf(tag, text) == <<Tok("open", tag), Tok("text", XmlEscape(text)), Tok("close", tag)>>

RECURSIVE MemberTags_dedup(_)
\* Variant: a member that occurs again later in the list is left out.
MemberTags_dedup(ms) ==
    IF ms = <<>> THEN <<>>
    ELSE (IF \E i \in 2..Len(ms) : ms[i] = Head(ms) THEN <<>> ELSE Leaf("members", Head(ms)))
         \o MemberTags_dedup(Tail(ms))

RECURSIVE MemberTags(_)
\* for m in members: etree.SubElement(types_tag, "members").text = m
MemberTags(ms) ==
    IF ms = <<>> THEN <<>>
    ELSE Leaf("members", Head(ms)) \o MemberTags(Tail(ms))

_generate_package_xml(ms, type, version) ==
    <<Tok("open", "Package"), Tok("open", "types")>>
    \o MemberTags(ms)
    \o Leaf("name", type)
    \o <<Tok("close", "types")>>
    \o Leaf("version", version)
    \o <<Tok("close", "Package")>>

\* No call of the assembler is being looked at.
PkgIdle ==
    /\ members = <<>>
    /\ metadata_type = "null"
    /\ api_version = "null"
    /\ pkg_xml = NONE

\* One thread, every token issued at second 0 and the clock at 0.
SessionIdle ==
    /\ returned_age = -1
    /\ now = 0
    /\ login_timestamp = [u \in {"u1", "u2", "u3"} |-> 0]
    /\ token_refresh_threshold_seconds = TokenRefreshThresholdDefault
    /\ sf_session = 0
    /\ thread = "t1"
    /\ parked = <<"None", 0>>

\* No wrapped function is being called and no data tool is running.
UtilIdle ==
    /\ max_attempts = 0
    /\ backoff = 0
    /\ exceptions = {}
    /\ on_retry = FALSE
    /\ attempt = 0
    /\ rpc = "idle"
    /\ trace = <<>>
    /\ outcome = NONE
    /\ records = 0
    /\ wait_for_completion = FALSE
    /\ query = <<>>
    /\ use_tooling_api = FALSE

\* No fetch call has been observed.
HistIdle ==
    /\ prev = NONE
    /\ changed_prev = FALSE
    /\ changed_now = FALSE

\* ------------------------------------------------------------------- Init
Init ==
    /\ tool = "none"
    /\ name = <<>>
    /\ table = NoObject
    /\ pc = "idle"
    /\ sf_connection = "None"
    /\ exists \in BOOLEAN
    /\ existed = exists
    /\ calls = <<>>
    /\ job_id = "null"
    /\ status = NONE
    /\ resp = NONE
    /\ raised = FALSE
    /\ timeout_seconds = PollTimeoutDefault
    /\ interval_seconds = PollIntervalDefault
    /\ elapsed = 0
    /\ latency = 0
    /\ PkgIdle
    /\ HistIdle
    /\ operation = "none"
    /\ stored_tokens \in {<<>>, <<"u1", "u2">>}
    /\ active_org = "None"
    /\ user_id = "None"
    /\ returned = "none"
    /\ SessionIdle
    /\ UtilIdle

\* ------------------------------------------------- leaving the tool body
\* Each step ends in exactly one of Continue, Return, Raise, Escape, which
\* together set pc, resp and raised and leave alone what is not part of the
\* tool call.

\* The function goes on to position p.
Continue(p) ==
    /\ pc' = p
    /\ UNCHANGED <<resp, raised>>
    /\ UNCHANGED <<pkg_vars, util_vars, hist_vars, operation, conn_vars>>

\* The function returns response r.
Return(r) ==
    /\ resp' = r
    /\ pc' = "done"
    /\ UNCHANGED raised
    /\ UNCHANGED <<pkg_vars, util_vars, hist_vars, operation, conn_vars>>

\* An exception leaves the called function.
Escape ==
    /\ raised' = TRUE
    /\ resp' = NONE
    /\ pc' = "done"
    /\ UNCHANGED <<pkg_vars, util_vars, hist_vars, operation, conn_vars>>

\* An exception with text msg is raised inside the function body.  Every
\* tool of the deploy facade runs its body under `except Exception as e`
\* and returns {"success": False, "error": str(e)}; get_metadata_deploy_status
\* adds the job id; a direct call of the poller has no handler.
Raise(msg) ==
    CASE tool = PollerCall -> Escape
      [] tool = "get_metadata_deploy_status" ->
            Return([success |-> FALSE, error |-> msg, job_id |-> job_id])
      [] OTHER -> Return(ErrorResp(msg))

\* Variant: the grant runs whatever the deploy outcome was.
DeployFailed_ignored(st) == FALSE

\* upsert_custom_field: if not final_status.get("success")
DeployFailed(st) == ~st.success

\* The code that follows `status = _poll_metadata_rest_deploy_status(...)`.
AfterPoll(st) ==
    CASE tool \in {"create_apex_class", "upsert_apex_class", "create_apex_trigger",
                    "upsert_apex_trigger"} ->
            Return(FacadeDeployResp(tool, name, WithJobId(st, job_id)))
      [] tool \in {"create_flow", "upsert_flow", "create_permission_set"} ->
            Return(WithJobId(st, job_id))
      [] tool = "upsert_custom_field" ->
            IF DeployFailed(st)
            THEN Return(FieldFailureResp(FieldOperation(IsUpdate), _normalize_object_name(table),
                                         FieldName(name), job_id, st))
            ELSE Continue("fls")
      [] tool = "create_lwc_component" ->
            Return(LwcCreateResp(name, WithJobId(st, job_id)))
      [] OTHER -> Return(st)

\* ------------------------------------------------------------ tool entry
\* A client calls tool t with name n, object o (where the tool takes one)
\* and job id j (get_metadata_deploy_status).
StartCall(t, n, o, j, lat) ==
    /\ pc = "idle"
    /\ tool' = t
    /\ name' = n
    /\ table' = o
    /\ job_id' = j
    /\ pc' = IF t = "upsert_flow" THEN "ff_connect" ELSE "connect"
    /\ existed' = exists
    /\ calls' = <<>>
    /\ status' = NONE
    /\ resp' = NONE
    /\ raised' = FALSE
    /\ elapsed' = 0
    /\ latency' = lat
    /\ changed_now' = FALSE
    /\ operation' = "none"
    /\ UNCHANGED <<sf_connection, exists, timeout_seconds, interval_seconds>>
    /\ UNCHANGED <<pkg_vars, util_vars, prev, changed_prev, conn_vars>>

\* --------------------------------------------------------- deploy_metadata
\* metadata_type.lower().replace(" ", "").replace("_", "")
Lowered(mt) ==
    CASE mt \in {"ApexClass", "apex_class"} -> "apexclass"
      [] mt = "Flow"                         -> "flow"
      [] mt = "Report"                       -> "report"

\* METADATA_TYPE_ALIASES.get(normalized, metadata_type)
_normalize_metadata_type(mt) ==
    CASE Lowered(mt) = "apexclass" -> "ApexClass"
      [] Lowered(mt) = "flow"      -> "Flow"
      [] OTHER                     -> mt

\* format_error_response(Exception(msg), context="deploy_metadata"): neither
\* message of deploy_metadata matches an error pattern, so the generic hint
\* is added.
format_error_response(msg, context) ==
    [error      |-> msg,
     success    |-> FALSE,
     context    |-> context,
     hint       |-> "An unexpected error occurred.",
     error_type |-> "UNKNOWN"]

\* if operation == "create": create_apex_class(...) else: upsert_apex_class(...)
RouteApexClass(op) ==
    IF op = "create" THEN "create_apex_class" ELSE "upsert_apex_class"

\* if operation == "create": create_flow(...) else: upsert_flow(...)
RouteFlow(op) ==
    IF op = "create" THEN "create_flow" ELSE "upsert_flow"

\* A client calls deploy_metadata(metadata_type, name, content, operation);
\* json_ok says whether content parses as JSON.  The call is handed to the
\* create_X or upsert_X tool of the type, whose response it returns.
DeployMetadata(mt, n, json_ok, op, lat) ==
    /\ pc = "idle"
    /\ operation' = op
    /\ name' = n
    /\ table' = NoObject
    /\ job_id' = "null"
    /\ existed' = exists
    /\ calls' = <<>>
    /\ status' = NONE
    /\ raised' = FALSE
    /\ elapsed' = 0
    /\ latency' = lat
    /\ changed_now' = FALSE
    /\ CASE ~json_ok ->
                /\ tool' = "deploy_metadata"
                /\ resp' = format_error_response("Invalid JSON in content parameter",
                                                 "deploy_metadata")
                /\ pc' = "done"
         [] json_ok /\ _normalize_metadata_type(mt) = "ApexClass" ->
                /\ tool' = RouteApexClass(op)
                /\ resp' = NONE
                /\ pc' = "connect"
         [] json_ok /\ _normalize_metadata_type(mt) = "Flow" ->
                /\ tool' = RouteFlow(op)
                /\ resp' = NONE
                /\ pc' = IF RouteFlow(op) = "upsert_flow" THEN "ff_connect" ELSE "connect"
         [] OTHER ->
                /\ tool' = "deploy_metadata"
                /\ resp' = format_error_response("Unsupported metadata type",
                                                 "deploy_metadata")
                /\ pc' = "done"
    /\ UNCHANGED <<sf_connection, exists, timeout_seconds, interval_seconds>>
    /\ UNCHANGED <<pkg_vars, util_vars, prev, changed_prev, conn_vars>>

\* The response has been handed to the client; the call's locals are gone.
\* What stays is the thread's cached connection and the platform's state.
Finish ==
    /\ pc = "done"
    /\ tool # PollerCall
    /\ tool' = "none"
    /\ name' = <<>>
    /\ table' = NoObject
    /\ job_id' = "null"
    /\ pc' = "idle"
    /\ existed' = exists
    /\ calls' = <<>>
    /\ status' = NONE
    /\ resp' = NONE
    /\ raised' = FALSE
    /\ elapsed' = 0
    /\ latency' = 0
    /\ timeout_seconds' = PollTimeoutDefault
    /\ interval_seconds' = PollIntervalDefault
    /\ IF tool \in FetchTools
       THEN /\ prev' = [tool |-> tool, name |-> name, table |-> table, resp |-> resp,
                        failed |-> CallFailed]
            /\ changed_prev' = changed_now
       ELSE /\ prev' = prev
            /\ changed_prev' = (prev # NONE /\ (changed_prev \/ changed_now \/ exists # existed))
    /\ changed_now' = FALSE
    /\ operation' = "none"
    /\ UNCHANGED <<sf_connection, exists>>
    /\ UNCHANGED <<pkg_vars, util_vars, conn_vars>>

\* Where each tool goes once get_salesforce_connection() has returned.
AfterConnect ==
    CASE tool \in {"create_apex_class", "upsert_apex_class", "create_apex_trigger",
                    "upsert_apex_trigger"} ->
            Continue("query")
      [] tool \in {"create_flow", "upsert_flow", "create_permission_set"} ->
            Continue("submit")
      [] tool = "upsert_custom_field" ->
            IF ~_valid_custom_name(FieldName(name))
            THEN Return(ErrorResp("Invalid field API name"))
            ELSE IF ~(_normalize_object_name(table) \in StandardObjects
                      \/ _valid_custom_name(_normalize_object_name(table)))
            THEN Return(ErrorResp("Invalid object API name"))
            ELSE Continue("describe")
      [] tool = "get_metadata_deploy_status" -> Continue("status_once")
      [] tool = "fetch_apex_class" -> Continue("fa_tooling")
      [] tool = "fetch_custom_field" -> Continue("fc_describe")
      [] OTHER -> Continue("fom_describe")

\* ---------------------------------------------- get_salesforce_connection
Users == {"u1", "u2", "u3"}

\* The keys of the stored tokens.
TokenUsers == {stored_tokens[i] : i \in DOMAIN stored_tokens}

\* The token a new connection is built from: the user_id argument when it
\* has a token, else the active org when it has one, else the first token.
SelectedUser(uid) ==
    IF uid # "None" /\ uid \in TokenUsers THEN uid
    ELSE IF active_org # "None" /\ active_org \in TokenUsers THEN active_org
    ELSE stored_tokens[1]

\* What get_salesforce_connection(uid) returns: the cached connection when
\* there is one; otherwise a new one for the selected user, unless there is
\* no token or the selected token is too old and its refresh fails (~ok).
ConnectionResult(uid, ok) ==
    IF sf_connection # "None" THEN sf_connection
    ELSE IF stored_tokens = <<>> THEN "raised"
    ELSE IF ~ok THEN "raised"
    ELSE SelectedUser(uid)

\* local.sf_connection after the call.
CacheAfter(uid, ok) ==
    IF ConnectionResult(uid, ok) = "raised" THEN sf_connection
    ELSE ConnectionResult(uid, ok)

\* sf = get_salesforce_connection() at the top of a tool.
Connect(ok) ==
    /\ pc = "connect"
    /\ sf_connection' = CacheAfter("None", ok)
    /\ IF ConnectionResult("None", ok) # "raised"
       THEN AfterConnect
       ELSE IF tool = "fetch_object_metadata"
            THEN Return(ErrorResp("not found"))
            ELSE Raise(IF stored_tokens = <<>> THEN "No active Salesforce sessions"
                       ELSE "Failed to refresh token")
    /\ UNCHANGED <<tool, name, table, exists, existed, calls, job_id, status,
                   timeout_seconds, interval_seconds, elapsed, latency>>

\* ------------------------------------------------------ existence checks
\* Variant: a query answers without regard to what the platform holds.
ExistenceReplies_any == {"found", "none", "error"}

\* What a by-name query of the platform answers.
ExistenceReplies == {IF exists THEN "found" ELSE "none", "error"}

\* create_X: if check["totalSize"] > 0
AlreadyExists(reply) == reply = "found"

\* Variant: the update tool does not look at the query result.
NotFound_unchecked(reply) == FALSE

\* upsert_X: if check["totalSize"] == 0
NotFound(reply) == reply = "none"

\* create_apex_class / create_apex_trigger / upsert_apex_class /
\* upsert_apex_trigger: check = sf.query("SELECT Id FROM ... WHERE Name =
\* '<name>'") and the local checks that follow it.
ExistenceQuery(reply) ==
    /\ pc = "query"
    /\ reply \in ExistenceReplies
    /\ calls' = Append(calls, Call("query", "null", reply))
    /\ CASE reply = "error" -> Raise("query failed")
         [] tool \in UpdateOnlyTools ->
                IF NotFound(reply) THEN Return(ErrorResp("not found"))
                ELSE Continue("submit")
         [] OTHER ->
                IF AlreadyExists(reply) THEN Return(ErrorResp("already exists"))
                ELSE IF ~ValidApexName(name) THEN Return(ErrorResp("Invalid name"))
                ELSE IF tool = "create_apex_trigger" THEN Continue("describe")
                ELSE Continue("submit")
    /\ UNCHANGED <<tool, name, table, sf_connection, exists, existed, job_id, status,
                   timeout_seconds, interval_seconds, elapsed, latency>>

\* getattr(sf, <object>).describe() in create_apex_trigger (the target
\* object must exist) and upsert_custom_field (the object must exist; the
\* field list decides is_update).
Describe(reply) ==
    /\ pc = "describe"
    /\ reply \in (IF tool = "upsert_custom_field" THEN ExistenceReplies ELSE {"ok", "error"})
    /\ calls' = Append(calls, Call("describe", "null", reply))
    /\ IF reply = "error"
       THEN Return(ErrorResp("object not found"))
       ELSE Continue("submit")
    /\ UNCHANGED <<tool, name, table, sf_connection, exists, existed, job_id, status,
                   timeout_seconds, interval_seconds, elapsed, latency>>

\* upsert_flow: result = json.loads(fetch_flow(flow_name)).  fetch_flow
\* catches every exception itself, and upsert_flow goes on to create_flow
\* whatever fetch_flow answered.
FetchFlowConnect(ok) ==
    /\ pc = "ff_connect"
    /\ sf_connection' = CacheAfter("None", ok)
    /\ Continue(IF ConnectionResult("None", ok) # "raised" THEN "ff_query" ELSE "connect")
    /\ UNCHANGED <<tool, name, table, exists, existed, calls, job_id, status,
                   timeout_seconds, interval_seconds, elapsed, latency>>

\* fetch_flow: the FlowDefinition tooling query.
FetchFlowQuery(reply) ==
    /\ pc = "ff_query"
    /\ reply \in ExistenceReplies
    /\ calls' = Append(calls, Call("tooling", "null", reply))
    /\ Continue(IF reply = "found" THEN "ff_version" ELSE "connect")
    /\ UNCHANGED <<tool, name, table, sf_connection, exists, existed, job_id, status,
                   timeout_seconds, interval_seconds, elapsed, latency>>

\* fetch_flow: the active-version tooling query.
FetchFlowVersion(reply) ==
    /\ pc = "ff_version"
    /\ reply \in {"ok", "error"}
    /\ calls' = Append(calls, Call("tooling", "null", reply))
    /\ Continue("connect")
    /\ UNCHANGED <<tool, name, table, sf_connection, exists, existed, job_id, status,
                   timeout_seconds, interval_seconds, elapsed, latency>>


\* ---------------------------------------------------------------- submit
\* The check_only argument tool t passes to the submitter: no tool passes
\* True (upsert_custom_field passes check_only=False, the others leave the
\* default False).
check_only(t) == FALSE

\* deploy_opts["checkOnly"]: a check-only request validates the archive,
\* any other request deploys it.
SubmitKind(t) == IF check_only(t) THEN "validate" ELSE "submit"

\* dep = _execute_metadata_rest_deploy_multipart(sf, buf): one POST.  The
\* platform answers with a job id, with a body that has no id (ValueError)
\* or with an HTTP error (raise_for_status).  On success the caller enters
\* _poll_metadata_rest_deploy_status(sf, dep["id"]) with the default
\* timeout and interval, and start = time.time().
Submit(reply) ==
    /\ pc = "submit"
    /\ reply \in JobIds \cup {"noid", "error"}
    /\ calls' = Append(calls, Call(SubmitKind(tool), "null", reply))
    /\ CASE reply = "error" ->
                /\ job_id' = job_id
                /\ Raise("HTTPError")
         [] reply # "error" /\ MissingId(reply) ->
                /\ job_id' = job_id
                /\ Raise("Deploy response missing id")
         [] OTHER ->
                /\ job_id' = reply
                /\ Continue("poll")
    /\ elapsed' = 0
    /\ timeout_seconds' = PollTimeoutDefault
    /\ interval_seconds' = PollIntervalDefault
    /\ UNCHANGED <<tool, name, table, sf_connection, exists, existed, status, latency>>

\* ---------------------------------------------------------------- poller
\* Variant: a failed status check is tried again after the sleep.
PollRequestFailed_retried ==
    Continue("sleep")

\* resp.raise_for_status() on a failed status check: the exception leaves
\* the poller, which has no try/except and no retry decorator.
PollRequestFailed ==
    Raise("HTTPError")

\* Top of the loop with the deadline passed: return the Timeout outcome.
PollTimeout ==
    /\ pc = "poll"
    /\ DeadlinePassed(elapsed, timeout_seconds)
    /\ status' = TimeoutOutcome
    /\ AfterPoll(TimeoutOutcome)
    /\ UNCHANGED <<tool, name, table, sf_connection, exists, existed, calls, job_id,
                   timeout_seconds, interval_seconds, elapsed, latency>>

StatusReplies == TerminalStatuses \cup {"notdone", "error", "malformed"}

\* Top of the loop with the deadline not passed: one GET of the job status.
\* reply is the terminal status of a done job, "notdone", "error" (transport
\* or HTTP error: raise_for_status) or "malformed" (a body the code fails to
\* read: done without status, or a null details while not done).
PollStatusCheck(reply, d) ==
    /\ pc = "poll"
    /\ ~DeadlinePassed(elapsed, timeout_seconds)
    /\ reply \in StatusReplies
    /\ calls' = Append(calls, Call("status", PollTarget(job_id), reply))
    /\ CASE reply = "notdone" ->
                /\ Continue("sleep")
                /\ UNCHANGED <<status, exists>>
         [] reply = "error" ->
                /\ PollRequestFailed
                /\ UNCHANGED <<status, exists>>
         [] reply = "malformed" ->
                /\ Raise("KeyError")
                /\ UNCHANGED <<status, exists>>
         [] OTHER ->
                /\ status' = DoneOutcome(reply, d)
                /\ AfterPoll(DoneOutcome(reply, d))
                /\ exists' = IF reply = "Succeeded" /\ tool \in DeployTools THEN TRUE
                             ELSE exists
    /\ UNCHANGED <<tool, name, table, sf_connection, existed, job_id,
                   timeout_seconds, interval_seconds, elapsed, latency>>

\* time.sleep(interval_seconds); the clock has moved by the request's
\* latency and the sleep when the deadline is read again.
PollSleep ==
    /\ pc = "sleep"
    /\ elapsed' = elapsed + latency + SleepTime(interval_seconds)
    /\ Continue("poll")
    /\ UNCHANGED <<tool, name, table, sf_connection, exists, existed, calls, job_id,
                   status, timeout_seconds, interval_seconds, latency>>

\* ------------------------------------------ upsert_custom_field: FLS steps
\* The field-level-security grant that follows a successful field deploy.
\* All of it runs inside one try/except Exception whose handler returns a
\* success=true response with the error in the message.

\* An exception raised by a step of the grant reaches that handler.
FlsError ==
    Return(FlsErrorResp(FieldOperation(IsUpdate), _normalize_object_name(table),
                        FieldName(name), job_id, FlsResult(calls')))

\* 1) ps_res = sf.query("SELECT Id, Name, Label FROM PermissionSet ...")
FlsPermissionSetQuery(reply) ==
    /\ pc = "fls"
    /\ reply \in {"found", "none", "error"}
    /\ calls' = Append(calls, Call("ps_query", "null", reply))
    /\ CASE reply = "error" -> FlsError
         [] reply = "none"  -> Continue("fls_ps_create")
         [] OTHER           -> Continue("fls_me")
    /\ UNCHANGED <<tool, name, table, sf_connection, exists, existed, job_id, status,
                   timeout_seconds, interval_seconds, elapsed, latency>>

\* created = sf.PermissionSet.create({...}) when the query found none
FlsPermissionSetCreate(reply) ==
    /\ pc = "fls_ps_create"
    /\ reply \in {"ok", "error"}
    /\ calls' = Append(calls, Call("ps_create", "null", reply))
    /\ IF reply = "error" THEN FlsError ELSE Continue("fls_me")
    /\ UNCHANGED <<tool, name, table, sf_connection, exists, existed, job_id, status,
                   timeout_seconds, interval_seconds, elapsed, latency>>

\* 2) me = sf.restful("chatter/users/me"); its own except falls back to a
\* User query.
FlsCurrentUser(reply) ==
    /\ pc = "fls_me"
    /\ reply \in {"ok", "error"}
    /\ calls' = Append(calls, Call("me", "null", reply))
    /\ IF reply = "error" THEN Continue("fls_me_query") ELSE Continue("fls_psa_query")
    /\ UNCHANGED <<tool, name, table, sf_connection, exists, existed, job_id, status,
                   timeout_seconds, interval_seconds, elapsed, latency>>

\* me_res = sf.query("SELECT Id FROM User ..."): me_id is None when it finds
\* no user, and step 3 is skipped.
FlsCurrentUserFallback(reply) ==
    /\ pc = "fls_me_query"
    /\ reply \in {"found", "none", "error"}
    /\ calls' = Append(calls, Call("me_query", "null", reply))
    /\ CASE reply = "error" -> FlsError
         [] reply = "none"  -> Continue("fls_fp_query")
         [] OTHER           -> Continue("fls_psa_query")
    /\ UNCHANGED <<tool, name, table, sf_connection, exists, existed, job_id, status,
                   timeout_seconds, interval_seconds, elapsed, latency>>

\* 3) chk = sf.query("SELECT Id FROM PermissionSetAssignment ...")
FlsAssignmentQuery(reply) ==
    /\ pc = "fls_psa_query"
    /\ reply \in {"found", "none", "error"}
    /\ calls' = Append(calls, Call("psa_query", "null", reply))
    /\ CASE reply = "error" -> FlsError
         [] reply = "none"  -> Continue("fls_psa_create")
         [] OTHER           -> Continue("fls_fp_query")
    /\ UNCHANGED <<tool, name, table, sf_connection, exists, existed, job_id, status,
                   timeout_seconds, interval_seconds, elapsed, latency>>

\* sf.PermissionSetAssignment.create({...}) when there is no assignment
FlsAssignmentCreate(reply) ==
    /\ pc = "fls_psa_create"
    /\ reply \in {"ok", "error"}
    /\ calls' = Append(calls, Call("psa_create", "null", reply))
    /\ IF reply = "error" THEN FlsError ELSE Continue("fls_fp_query")
    /\ UNCHANGED <<tool, name, table, sf_connection, exists, existed, job_id, status,
                   timeout_seconds, interval_seconds, elapsed, latency>>

\* 4) fp = sf.query("SELECT Id, ... FROM FieldPermissions ...")
FlsFieldPermissionQuery(reply) ==
    /\ pc = "fls_fp_query"
    /\ reply \in {"found", "none", "error"}
    /\ calls' = Append(calls, Call("fp_query", "null", reply))
    /\ CASE reply = "error" -> FlsError
         [] reply = "none"  -> Continue("fls_fp_create")
         [] OTHER           -> Continue("fls_fp_update")
    /\ UNCHANGED <<tool, name, table, sf_connection, exists, existed, job_id, status,
                   timeout_seconds, interval_seconds, elapsed, latency>>

\* sf.FieldPermissions.create({...}) or sf.FieldPermissions.update(fp_id,
\* {...}), then the final success response.
FlsFieldPermissionWrite(reply) ==
    /\ pc \in {"fls_fp_create", "fls_fp_update"}
    /\ reply \in {"ok", "error"}
    /\ calls' = Append(calls, Call(IF pc = "fls_fp_create" THEN "fp_create" ELSE "fp_update",
                                   "null", reply))
    /\ IF reply = "error"
       THEN FlsError
       ELSE Return(FieldSuccessResp(FieldOperation(IsUpdate), _normalize_object_name(table),
                                    FieldName(name), job_id, FlsResult(calls')))
    /\ UNCHANGED <<tool, name, table, sf_connection, exists, existed, job_id, status,
                   timeout_seconds, interval_seconds, elapsed, latency>>

\* --------------------------------------------- get_metadata_deploy_status
\* One GET of deployRequest/{job_id}; reply is the job's status
\* ("InProgress" while it runs), "nostatus" for a body without one, or
\* "error".
DeployStatusRequest(reply, d) ==
    /\ pc = "status_once"
    /\ reply \in TerminalStatuses \cup {"InProgress", "nostatus", "error"}
    /\ calls' = Append(calls, Call("status", job_id, reply))
    /\ IF reply = "error"
       THEN Raise("HTTPError")
       ELSE Return([success |-> PollSuccess(reply),
                    status  |-> IF reply = "nostatus" THEN "null" ELSE reply,
                    details |-> d])
    /\ UNCHANGED <<tool, name, table, sf_connection, exists, existed, job_id, status,
                   timeout_seconds, interval_seconds, elapsed, latency>>

\* -------------------------------------------------- fetch_object_metadata
\* desc = getattr(sf, object_name).describe() is inside the try; the reads
\* desc["fields"], f["name"], desc["label"], desc["custom"] that follow are
\* not, so a describe result without one of these keys raises KeyError out
\* of the tool.
FomDescribe(reply) ==
    /\ pc = "fom_describe"
    /\ reply \in {"ok", "malformed", "error"}
    /\ calls' = Append(calls, Call("describe", "null", reply))
    /\ CASE reply = "error" -> Return(ErrorResp("not found"))
         [] reply = "malformed" -> Escape
         [] OTHER -> Continue("fom_rt")
    /\ UNCHANGED <<tool, name, table, sf_connection, exists, existed, job_id, status,
                   timeout_seconds, interval_seconds, elapsed, latency>>

\* The RecordType query, whose failure is swallowed (except: pass).
FomRecordTypes(reply) ==
    /\ pc = "fom_rt"
    /\ reply \in {"ok", "error"}
    /\ calls' = Append(calls, Call("query", "null", reply))
    /\ Return([success |-> TRUE, objectName |-> name,
               recordTypes |-> IF reply = "ok" THEN "records" ELSE "empty"])
    /\ UNCHANGED <<tool, name, table, sf_connection, exists, existed, job_id, status,
                   timeout_seconds, interval_seconds, elapsed, latency>>

\* ------------------------------------------------------- fetch_apex_class
\* tooling_res = sf.toolingexecute("query/?q=SELECT ... FROM ApexClass WHERE
\* Name = '<class_name>'"); size 0 is the not-found response.
FetchApexTooling(reply) ==
    /\ pc = "fa_tooling"
    /\ reply \in ExistenceReplies
    /\ calls' = Append(calls, Call("tooling", "null", reply))
    /\ CASE reply = "error" -> Raise("tooling query failed")
         [] reply = "none"  -> Return(ErrorResp("not found"))
         [] OTHER           -> Continue("fa_core")
    /\ UNCHANGED <<tool, name, table, sf_connection, exists, existed, job_id, status,
                   timeout_seconds, interval_seconds, elapsed, latency>>

\* core_res = sf.query("SELECT Id, NamespacePrefix, CreatedBy.Name, ... FROM
\* ApexClass WHERE Name = ..."): when it has a record, three more fields are
\* copied into the data.
FetchApexCore(reply) ==
    /\ pc = "fa_core"
    /\ reply \in ExistenceReplies
    /\ calls' = Append(calls, Call("query", "null", reply))
    /\ IF reply = "error"
       THEN Raise("query failed")
       ELSE Return([success |-> TRUE,
                    data |-> IF reply = "found"
                             THEN [Name |-> name, Body |-> "body", CreatedByName |-> "user"]
                             ELSE [Name |-> name, Body |-> "body"]])
    /\ UNCHANGED <<tool, name, table, sf_connection, exists, existed, job_id, status,
                   timeout_seconds, interval_seconds, elapsed, latency>>

\* ------------------------------------------------------ fetch_custom_field
\* desc = getattr(sf, object_name).describe() and the search of desc["fields"]
\* for field_name.
FetchFieldDescribe(reply) ==
    /\ pc = "fc_describe"
    /\ reply \in ExistenceReplies
    /\ calls' = Append(calls, Call("describe", "null", reply))
    /\ CASE reply = "error" -> Raise("describe failed")
         [] reply = "none"  -> Return(ErrorResp("Field not found"))
         [] OTHER           -> Continue("fc_tooling")
    /\ UNCHANGED <<tool, name, table, sf_connection, exists, existed, job_id, status,
                   timeout_seconds, interval_seconds, elapsed, latency>>

\* tooling_res = sf.toolingexecute("query/?q=SELECT ... FROM FieldDefinition
\* ..."): extra is its first record, or {} when it has none.
FetchFieldTooling(reply) ==
    /\ pc = "fc_tooling"
    /\ reply \in ExistenceReplies
    /\ calls' = Append(calls, Call("tooling", "null", reply))
    /\ IF reply = "error"
       THEN Raise("tooling query failed")
       ELSE Return([success |-> TRUE,
                    field |-> [name |-> name],
                    extra |-> IF reply = "found" THEN "FieldDefinition" ELSE "empty"])
    /\ UNCHANGED <<tool, name, table, sf_connection, exists, existed, job_id, status,
                   timeout_seconds, interval_seconds, elapsed, latency>>

\* Someone creates or deletes the component on the platform.
Mutate ==
    /\ exists' = ~exists
    /\ changed_prev' = (prev # NONE)
    /\ changed_now' = TRUE
    /\ UNCHANGED <<tool, name, table, pc, sf_connection, existed, calls, job_id, status,
                   resp, raised, timeout_seconds, interval_seconds, elapsed, latency>>
    /\ UNCHANGED <<pkg_vars, util_vars, prev, operation, conn_vars>>

\* ------------------------------------------------------------------- Next
ToolInputs(t) ==
    [n : NameInputs,
     o : IF t \in {"create_apex_trigger", "upsert_custom_field", "fetch_custom_field"}
         THEN ObjectInputs
         ELSE {NoObject},
     j : IF t = "get_metadata_deploy_status" THEN JobIds ELSE {"null"}]

Next ==
    \/ \E t \in Tools, lat \in 0..MaxDelay : \E in \in ToolInputs(t) :
            StartCall(t, in.n, in.o, in.j, lat)
    \/ Finish
    \/ \E ok \in BOOLEAN : Connect(ok)
    \/ \E reply \in {"found", "none", "error"} : ExistenceQuery(reply)
    \/ \E reply \in {"found", "none", "ok", "error"} : Describe(reply)
    \/ \E ok \in BOOLEAN : FetchFlowConnect(ok)
    \/ \E reply \in {"found", "none", "error"} : FetchFlowQuery(reply)
    \/ \E reply \in {"ok", "error"} : FetchFlowVersion(reply)
    \/ \E reply \in JobIds \cup {"noid", "error"} : Submit(reply)
    \/ PollTimeout
    \/ \E reply \in StatusReplies, d \in DetailValues : PollStatusCheck(reply, d)
    \/ PollSleep
    \/ \E reply \in {"found", "none", "error"} : FlsPermissionSetQuery(reply)
    \/ \E reply \in {"ok", "error"} : FlsPermissionSetCreate(reply)
    \/ \E reply \in {"ok", "error"} : FlsCurrentUser(reply)
    \/ \E reply \in {"found", "none", "error"} : FlsCurrentUserFallback(reply)
    \/ \E reply \in {"found", "none", "error"} : FlsAssignmentQuery(reply)
    \/ \E reply \in {"ok", "error"} : FlsAssignmentCreate(reply)
    \/ \E reply \in {"found", "none", "error"} : FlsFieldPermissionQuery(reply)
    \/ \E reply \in {"ok", "error"} : FlsFieldPermissionWrite(reply)
    \/ \E reply \in TerminalStatuses \cup {"InProgress", "nostatus", "error"},
          d \in DetailValues : DeployStatusRequest(reply, d)
    \/ \E reply \in {"ok", "malformed", "error"} : FomDescribe(reply)
    \/ \E reply \in {"ok", "error"} : FomRecordTypes(reply)

Spec == Init /\ [][Next]_vars

\* ---------------------------------------------- the poller called directly
\* _poll_metadata_rest_deploy_status(sf, job, k, i) for small k and i.
InitPoll ==
    /\ tool = PollerCall
    /\ name = <<>>
    /\ table = NoObject
    /\ pc = "poll"
    /\ sf_connection = "u1"
    /\ exists \in BOOLEAN
    /\ existed = exists
    /\ calls = <<>>
    /\ job_id \in JobIds
    /\ status = NONE
    /\ resp = NONE
    /\ raised = FALSE
    /\ timeout_seconds \in 0..MaxTimeout
    /\ interval_seconds \in 1..MaxInterval
    /\ elapsed = 0
    /\ latency \in 0..MaxDelay
    /\ PkgIdle
    /\ HistIdle
    /\ operation = "none"
    /\ stored_tokens = <<"u1", "u2">>
    /\ active_org = "None"
    /\ user_id = "None"
    /\ returned = "none"
    /\ SessionIdle
    /\ UtilIdle

NextPoll ==
    \/ PollTimeout
    \/ \E reply \in StatusReplies, d \in DetailValues : PollStatusCheck(reply, d)
    \/ PollSleep

SpecPoll == InitPoll /\ [][NextPoll]_vars


\* --------------------------- get_salesforce_connection called directly
\* Sequences over S without repetition.
Orderings(S) ==
    {q \in SeqUpTo(S, Cardinality(S)) : \A i, j \in DOMAIN q : i # j => q[i] # q[j]}

InitConn ==
    /\ tool = "none"
    /\ name = <<>>
    /\ table = NoObject
    /\ pc = "idle"
    /\ sf_connection = "None"
    /\ exists = FALSE
    /\ existed = FALSE
    /\ calls = <<>>
    /\ job_id = "null"
    /\ status = NONE
    /\ resp = NONE
    /\ raised = FALSE
    /\ timeout_seconds = PollTimeoutDefault
    /\ interval_seconds = PollIntervalDefault
    /\ elapsed = 0
    /\ latency = 0
    /\ PkgIdle
    /\ HistIdle
    /\ operation = "none"
    /\ stored_tokens \in Orderings(Users)
    /\ active_org \in Users \cup {"None"}
    /\ user_id = "None"
    /\ returned = "none"
    /\ SessionIdle
    /\ UtilIdle

\* token_age = time.time() - token_data['login_timestamp'];
\* token_age > config.token_refresh_threshold_seconds
TokenStale(u) == now - login_timestamp[u] > token_refresh_threshold_seconds

\* refresh_salesforce_token(u) succeeded: the stored token of u is a new one,
\* issued now.
Refreshed(u) == [login_timestamp EXCEPT ![u] = now]

\* A caller runs get_salesforce_connection(uid) in the running thread;
\* refresh_ok says whether a token refresh, if one is needed, succeeds.
GetSalesforceConnection(uid, refresh_ok) ==
    LET creating == sf_connection = "None" /\ stored_tokens # <<>>
        stale    == creating /\ TokenStale(SelectedUser(uid))
        ok       == ~stale \/ refresh_ok
        result   == ConnectionResult(uid, ok)
    IN  /\ user_id' = uid
        /\ returned' = result
        /\ sf_connection' = CacheAfter(uid, ok)
        /\ login_timestamp' = IF stale /\ refresh_ok THEN Refreshed(SelectedUser(uid))
                               ELSE login_timestamp
        /\ sf_session' = IF creating /\ ok THEN login_timestamp'[SelectedUser(uid)]
                          ELSE sf_session
        /\ returned_age' = IF result = "raised" THEN -1 ELSE now - sf_session'
        /\ UNCHANGED <<stored_tokens, active_org, now, token_refresh_threshold_seconds,
                       thread, parked>>
        /\ UNCHANGED <<tool, name, table, pc, exists, existed, calls, job_id, status, resp,
                       raised, timeout_seconds, interval_seconds, elapsed, latency>>
        /\ UNCHANGED <<pkg_vars, util_vars, hist_vars, operation>>

\* clear_connection_cache(): the running thread's local.sf_connection = None
ClearConnectionCache ==
    /\ sf_connection' = "None"
    /\ sf_session' = 0
    /\ UNCHANGED <<stored_tokens, active_org, user_id, returned, returned_age, now,
                   login_timestamp, token_refresh_threshold_seconds, thread, parked>>
    /\ UNCHANGED <<tool, name, table, pc, exists, existed, calls, job_id, status, resp,
                   raised, timeout_seconds, interval_seconds, elapsed, latency>>
    /\ UNCHANGED <<pkg_vars, util_vars, hist_vars, operation>>

\* A second passes.
Tick ==
    /\ now < MaxClock
    /\ now' = now + 1
    /\ UNCHANGED <<stored_tokens, active_org, user_id, returned, returned_age,
                   login_timestamp, token_refresh_threshold_seconds, sf_session, thread,
                   parked>>
    /\ UNCHANGED <<tool_vars, pkg_vars, util_vars, hist_vars, operation>>

NextConn ==
    \/ \E uid \in Users \cup {"None"}, ok \in BOOLEAN : GetSalesforceConnection(uid, ok)
    \/ ClearConnectionCache

SpecConn == InitConn /\ [][NextConn]_vars

\* ------------------------------ connections handed out while tokens age
InitToken ==
    /\ tool = "none"
    /\ name = <<>>
    /\ table = NoObject
    /\ pc = "idle"
    /\ sf_connection = "None"
    /\ exists = FALSE
    /\ existed = FALSE
    /\ calls = <<>>
    /\ job_id = "null"
    /\ status = NONE
    /\ resp = NONE
    /\ raised = FALSE
    /\ timeout_seconds = PollTimeoutDefault
    /\ interval_seconds = PollIntervalDefault
    /\ elapsed = 0
    /\ latency = 0
    /\ PkgIdle
    /\ HistIdle
    /\ operation = "none"
    /\ stored_tokens = <<"u1", "u2">>
    /\ active_org \in {"None", "u2"}
    /\ user_id = "None"
    /\ returned = "none"
    /\ returned_age = -1
    /\ now = 0
    /\ login_timestamp = [u \in Users |-> 0]
    /\ token_refresh_threshold_seconds \in 1..MaxThreshold
    /\ sf_session = 0
    /\ thread = "t1"
    /\ parked = <<"None", 0>>
    /\ UtilIdle

NextToken ==
    \/ \E uid \in {"None", "u2"}, refresh_ok \in BOOLEAN :
            GetSalesforceConnection(uid, refresh_ok)
    \/ ClearConnectionCache
    \/ Tick

SpecToken == InitToken /\ [][NextToken]_vars

\* -------------------------------------- two threads and switch_active_org
\* The other thread gets the processor: local.sf_connection now names that
\* thread's attribute.
SwitchThread ==
    /\ thread' = IF thread = "t1" THEN "t2" ELSE "t1"
    /\ sf_connection' = parked[1]
    /\ sf_session' = parked[2]
    /\ parked' = <<sf_connection, sf_session>>
    /\ UNCHANGED <<stored_tokens, active_org, user_id, returned, returned_age, now,
                   login_timestamp, token_refresh_threshold_seconds>>
    /\ UNCHANGED <<tool, name, table, pc, exists, existed, calls, job_id, status, resp,
                   raised, timeout_seconds, interval_seconds, elapsed, latency>>
    /\ UNCHANGED <<pkg_vars, util_vars, hist_vars, operation>>

\* switch_active_org(uid) in the running thread.  For a user without a token
\* it answers success=false and changes nothing; otherwise it sets
\* _active_org["user_id"] and calls clear_connection_cache().  The result of
\* an earlier get_salesforce_connection call is no longer looked at.
SwitchActiveOrg(uid) ==
    /\ IF uid \in TokenUsers
       THEN /\ active_org' = uid
            /\ sf_connection' = "None"
            /\ sf_session' = 0
       ELSE UNCHANGED <<active_org, sf_connection, sf_session>>
    /\ user_id' = "None"
    /\ returned' = "none"
    /\ returned_age' = -1
    /\ UNCHANGED <<stored_tokens, now, login_timestamp, token_refresh_threshold_seconds,
                   thread, parked>>
    /\ UNCHANGED <<tool, name, table, pc, exists, existed, calls, job_id, status, resp,
                   raised, timeout_seconds, interval_seconds, elapsed, latency>>
    /\ UNCHANGED <<pkg_vars, util_vars, hist_vars, operation>>

InitThreads ==
    /\ tool = "none"
    /\ name = <<>>
    /\ table = NoObject
    /\ pc = "idle"
    /\ sf_connection = "None"
    /\ exists = FALSE
    /\ existed = FALSE
    /\ calls = <<>>
    /\ job_id = "null"
    /\ status = NONE
    /\ resp = NONE
    /\ raised = FALSE
    /\ timeout_seconds = PollTimeoutDefault
    /\ interval_seconds = PollIntervalDefault
    /\ elapsed = 0
    /\ latency = 0
    /\ PkgIdle
    /\ HistIdle
    /\ operation = "none"
    /\ stored_tokens \in {<<"u1", "u2">>, <<"u2", "u3", "u1">>}
    /\ active_org = "None"
    /\ user_id = "None"
    /\ returned = "none"
    /\ SessionIdle
    /\ UtilIdle

\* Every connection request leaves user_id out, as the tools do.
NextThreads ==
    \/ \E refresh_ok \in BOOLEAN : GetSalesforceConnection("None", refresh_ok)
    \/ \E uid \in Users : SwitchActiveOrg(uid)
    \/ SwitchThread

SpecThreads == InitThreads /\ [][NextThreads]_vars

\* ------------------------------------------------------ retry decorator
\* What one invocation of the wrapped function does: it returns a value or
\* raises an exception of one of two types.
ExceptionTypes == {"E1", "E2"}
FuncOutcomes == {"r"} \cup ExceptionTypes

RECURSIVE Pow(_, _)
Pow(b, k) == IF k <= 0 THEN 1 ELSE b * Pow(b, k - 1)

\* Variant: the first wait is backoff ^ 0.
WaitTime_early(b, k) == Pow(b, k - 1)

\* wait_time = backoff ** attempt
WaitTime(b, k) == Pow(b, k)

\* Variant: the wrapper gives up one failure later.
AttemptsExhausted_late(a, n) == a > n

\* if attempt >= max_attempts: raise
AttemptsExhausted(a, n) == a >= n

Event(ev, k, x) == [ev |-> ev, k |-> k, x |-> x]
Returned(x) == [kind |-> "returned", x |-> x, k |-> attempt + 1]
Raised(x, k) == [kind |-> "raised", x |-> x, k |-> k]

\* Invocations of the wrapped function made so far.
Invocations == Len(SelectSeq(trace, LAMBDA e : e.ev = "call"))

retry_frame ==
    /\ UNCHANGED <<max_attempts, backoff, exceptions, on_retry>>
    /\ UNCHANGED <<tool_vars, pkg_vars, hist_vars, operation, conn_vars, data_vars>>

\* `return func(*args, **kwargs)` inside the try, and the except clause that
\* runs when it raised an exception of a caught type: count the failure,
\* re-raise when the attempts are used up, otherwise go on to the callback
\* (if one was passed) and the sleep.  Any other exception leaves the
\* wrapper untouched.
Invoke(out) ==
    /\ rpc = "invoke"
    /\ trace' = Append(trace, Event("call", Invocations + 1, out))
    /\ CASE out \notin ExceptionTypes ->
                /\ outcome' = Returned(out)
                /\ rpc' = "done"
                /\ UNCHANGED attempt
         [] out \in ExceptionTypes /\ out \notin exceptions ->
                /\ outcome' = Raised(out, Invocations + 1)
                /\ rpc' = "done"
                /\ UNCHANGED attempt
         [] OTHER ->
                /\ attempt' = attempt + 1
                /\ IF AttemptsExhausted(attempt + 1, max_attempts)
                   THEN /\ outcome' = Raised(out, Invocations + 1)
                        /\ rpc' = "done"
                   ELSE /\ outcome' = [outcome EXCEPT !.x = out]
                        /\ rpc' = IF on_retry THEN "on_retry" ELSE "sleep"
    /\ retry_frame

\* on_retry(attempt, e): the callback returns, or raises inside the except
\* clause, which ends the wrapper call with the callback's exception.
OnRetry(ok) ==
    /\ rpc = "on_retry"
    /\ trace' = Append(trace, Event("on_retry", attempt, outcome.x))
    /\ IF ok
       THEN /\ rpc' = "sleep"
            /\ UNCHANGED outcome
       ELSE /\ rpc' = "done"
            /\ outcome' = Raised("CallbackError", 0)
    /\ UNCHANGED attempt
    /\ retry_frame

\* time.sleep(wait_time) (await asyncio.sleep(wait_time) in async_retry),
\* then the loop test `while attempt < max_attempts`.
Sleep ==
    /\ rpc = "sleep"
    /\ trace' = Append(trace, Event("sleep", WaitTime(backoff, attempt), "null"))
    /\ IF attempt < max_attempts
       THEN /\ rpc' = "invoke"
            /\ UNCHANGED outcome
       ELSE /\ rpc' = "done"
            /\ outcome' = [kind |-> "returned", x |-> "None", k |-> 0]
    /\ UNCHANGED attempt
    /\ retry_frame

\* A call of the wrapper: attempt = 0 and the first loop test.  The caller
\* chose the decorator's arguments; async_retry is the case without a
\* callback.
InitRetry ==
    /\ tool = "none"
    /\ name = <<>>
    /\ table = NoObject
    /\ pc = "idle"
    /\ sf_connection = "None"
    /\ exists = FALSE
    /\ existed = FALSE
    /\ calls = <<>>
    /\ job_id = "null"
    /\ status = NONE
    /\ resp = NONE
    /\ raised = FALSE
    /\ timeout_seconds = PollTimeoutDefault
    /\ interval_seconds = PollIntervalDefault
    /\ elapsed = 0
    /\ latency = 0
    /\ PkgIdle
    /\ HistIdle
    /\ operation = "none"
    /\ stored_tokens = <<>>
    /\ active_org = "None"
    /\ user_id = "None"
    /\ returned = "none"
    /\ SessionIdle
    /\ max_attempts \in 0..MaxAttempts
    /\ backoff \in {2, 3}
    /\ exceptions \in {{"E1"}, {"E1", "E2"}}
    /\ on_retry \in BOOLEAN
    /\ attempt = 0
    /\ trace = <<>>
    /\ rpc = IF 0 < max_attempts THEN "invoke" ELSE "done"
    /\ outcome = IF 0 < max_attempts THEN [kind |-> "none", x |-> "null", k |-> 0]
                 ELSE [kind |-> "returned", x |-> "None", k |-> 0]
    /\ records = 0
    /\ wait_for_completion = FALSE
    /\ query = <<>>
    /\ use_tooling_api = FALSE

NextRetry ==
    \/ \E out \in FuncOutcomes : Invoke(out)
    \/ \E ok \in BOOLEAN : OnRetry(ok)
    \/ Sleep

SpecRetry == InitRetry /\ [][NextRetry]_vars

\* --------------------------------------------------- bulk_insert_records
\* States in which the polling loop of bulk_insert_records stops.
BulkTerminalStates == {"JobComplete", "Failed", "Aborted"}

\* Variant: the HTTP status of a bulk request is not looked at.
BulkRequestFailed_unchecked(reply) == FALSE

\* response.raise_for_status()
BulkRequestFailed(reply) == reply = "error"

\* while time.time() - start_time < timeout_seconds
BulkDeadlinePassed(e, t) == ~(e < t)

\* The results object returned for a job in a terminal state.
BulkResults(id, st, failed_records) ==
    [success        |-> st.state = "JobComplete",
     job_id         |-> id,
     state          |-> st.state,
     records_failed |-> st.numberRecordsFailed,
     failed_records |-> failed_records]

bulk_frame ==
    UNCHANGED <<tool, name, table, exists, existed, timeout_seconds, interval_seconds, latency>>

\* sf = get_salesforce_connection(), then `if not records`.
BulkConnect(ok) ==
    /\ pc = "bulk_connect"
    /\ sf_connection' = CacheAfter("None", ok)
    /\ IF ConnectionResult("None", ok) = "raised"
       THEN Raise(IF stored_tokens = <<>> THEN "No active Salesforce sessions"
                  ELSE "Failed to refresh token")
       ELSE IF records = 0
            THEN Return(ErrorResp("No records provided"))
            ELSE Continue("bulk_create")
    /\ UNCHANGED <<calls, job_id, status, elapsed>>
    /\ bulk_frame

\* POST jobs/ingest with operation insert; job_id = job_info["id"].
BulkCreateJob(reply) ==
    /\ pc = "bulk_create"
    /\ reply \in JobIds \cup {"noid", "error"}
    /\ calls' = Append(calls, Call("create_job", "null", reply))
    /\ IF BulkRequestFailed(reply) THEN Raise("HTTPError") /\ UNCHANGED job_id
       ELSE IF reply = "noid" THEN Raise("KeyError") /\ UNCHANGED job_id
       ELSE Continue("bulk_upload") /\ job_id' = reply
    /\ UNCHANGED <<sf_connection, status, elapsed>>
    /\ bulk_frame

\* PUT jobs/ingest/{job_id}/batches with the CSV text.
BulkUpload(reply) ==
    /\ pc = "bulk_upload"
    /\ reply \in {"ok", "error"}
    /\ calls' = Append(calls, Call("upload", job_id, reply))
    /\ IF BulkRequestFailed(reply) THEN Raise("HTTPError") ELSE Continue("bulk_close")
    /\ UNCHANGED <<sf_connection, job_id, status, elapsed>>
    /\ bulk_frame

\* PATCH jobs/ingest/{job_id} with state UploadComplete, then
\* `if not wait_for_completion: return ...` and start_time = time.time().
BulkClose(reply) ==
    /\ pc = "bulk_close"
    /\ reply \in {"ok", "error"}
    /\ calls' = Append(calls, Call("close", job_id, reply))
    /\ IF BulkRequestFailed(reply) THEN Raise("HTTPError")
       ELSE IF ~wait_for_completion
            THEN Return([success |-> TRUE, job_id |-> job_id, status |-> "processing"])
            ELSE Continue("bulk_poll")
    /\ elapsed' = 0
    /\ UNCHANGED <<sf_connection, job_id, status>>
    /\ bulk_frame

\* The loop test fails: the timeout response.
BulkTimeout ==
    /\ pc = "bulk_poll"
    /\ BulkDeadlinePassed(elapsed, timeout_seconds)
    /\ Return([success |-> FALSE, job_id |-> job_id, error |-> "Job timed out"])
    /\ UNCHANGED <<sf_connection, calls, job_id, status, elapsed>>
    /\ bulk_frame

\* GET jobs/ingest/{job_id}: the job's state and its numberRecordsFailed.
\* A terminal state ends the loop, with the failed-results fetch still to
\* do when records failed; any other state leads to time.sleep(5).
BulkStatusCheck(reply, failed) ==
    /\ pc = "bulk_poll"
    /\ ~BulkDeadlinePassed(elapsed, timeout_seconds)
    /\ reply \in BulkTerminalStates \cup {"InProgress", "error"}
    /\ failed \in 0..records
    /\ calls' = Append(calls, Call("status", job_id, reply))
    /\ CASE BulkRequestFailed(reply) ->
                /\ Raise("HTTPError")
                /\ UNCHANGED status
         [] ~BulkRequestFailed(reply) /\ reply \in BulkTerminalStates ->
                /\ status' = [state |-> reply, numberRecordsFailed |-> failed]
                /\ IF failed > 0
                   THEN Continue("bulk_failed")
                   ELSE Return(BulkResults(job_id, status', "null"))
         [] OTHER ->
                /\ Continue("bulk_sleep")
                /\ UNCHANGED status
    /\ UNCHANGED <<sf_connection, job_id, elapsed>>
    /\ bulk_frame

\* time.sleep(5)
BulkSleep ==
    /\ pc = "bulk_sleep"
    /\ elapsed' = elapsed + BulkSleepSeconds
    /\ Continue("bulk_poll")
    /\ UNCHANGED <<sf_connection, calls, job_id, status>>
    /\ bulk_frame

\* GET jobs/ingest/{job_id}/failedResults: no raise_for_status here, the
\* text is kept when the answer is 200; a transport error raises.
BulkFailedResults(reply) ==
    /\ pc = "bulk_failed"
    /\ reply \in {"200", "500", "error"}
    /\ calls' = Append(calls, Call("failed_results", job_id, reply))
    /\ IF reply = "error"
       THEN Raise("ConnectionError")
       ELSE Return(BulkResults(job_id, status, IF reply = "200" THEN "csv" ELSE "null"))
    /\ UNCHANGED <<sf_connection, job_id, status, elapsed>>
    /\ bulk_frame

InitBulk ==
    /\ tool = "bulk_insert_records"
    /\ name = <<>>
    /\ table = NoObject
    /\ pc = "bulk_connect"
    /\ sf_connection = "None"
    /\ exists = FALSE
    /\ existed = FALSE
    /\ calls = <<>>
    /\ job_id = "null"
    /\ status = NONE
    /\ resp = NONE
    /\ raised = FALSE
    /\ timeout_seconds \in {0, BulkSleepSeconds, 2 * BulkSleepSeconds}
    /\ interval_seconds = BulkSleepSeconds
    /\ elapsed = 0
    /\ latency = 0
    /\ PkgIdle
    /\ HistIdle
    /\ operation = "none"
    /\ stored_tokens \in {<<>>, <<"u1", "u2">>}
    /\ active_org = "None"
    /\ user_id = "None"
    /\ returned = "none"
    /\ SessionIdle
    /\ max_attempts = 0
    /\ backoff = 0
    /\ exceptions = {}
    /\ on_retry = FALSE
    /\ attempt = 0
    /\ rpc = "idle"
    /\ trace = <<>>
    /\ outcome = NONE
    /\ records \in 0..1
    /\ wait_for_completion \in BOOLEAN
    /\ query = <<>>
    /\ use_tooling_api = FALSE

NextBulk ==
    \/ \E ok \in BOOLEAN : BulkConnect(ok)
    \/ \E reply \in JobIds \cup {"noid", "error"} : BulkCreateJob(reply)
    \/ \E reply \in {"ok", "error"} : BulkUpload(reply)
    \/ \E reply \in {"ok", "error"} : BulkClose(reply)
    \/ BulkTimeout
    \/ \E reply \in BulkTerminalStates \cup {"InProgress", "error"}, failed \in 0..1 :
            BulkStatusCheck(reply, failed)
    \/ BulkSleep
    \/ \E reply \in {"200", "500", "error"} : BulkFailedResults(reply)

SpecBulk == InitBulk /\ [][NextBulk]_vars

\* --------------------------------------------------- create_lwc_component
\* sf = get_salesforce_connection() and the name validation.
LwcConnect(ok) ==
    /\ pc = "lwc_connect"
    /\ sf_connection' = CacheAfter("None", ok)
    /\ IF ConnectionResult("None", ok) = "raised"
       THEN Raise(IF stored_tokens = <<>> THEN "No active Salesforce sessions"
                  ELSE "Failed to refresh token")
       ELSE IF ~ValidLwcName(name)
            THEN Return(ErrorResp("Invalid component name"))
            ELSE Continue("lwc_query")
    /\ UNCHANGED <<tool, name, table, exists, existed, calls, job_id, status,
                   timeout_seconds, interval_seconds, elapsed, latency>>

\* exists = sf.toolingexecute("query/?q=SELECT Id FROM LightningComponentBundle
\* WHERE DeveloperName = '<name>'") inside its own try/except: a bundle
\* found ends the call; an exception is logged and the function goes on to
\* build the files and deploy.
LwcExistenceQuery(reply) ==
    /\ pc = "lwc_query"
    /\ reply \in ExistenceReplies
    /\ calls' = Append(calls, Call("tooling", "null", reply))
    /\ IF AlreadyExists(reply)
       THEN Return(ErrorResp("already exists"))
       ELSE Continue("submit")
    /\ UNCHANGED <<tool, name, table, sf_connection, exists, existed, job_id, status,
                   timeout_seconds, interval_seconds, elapsed, latency>>

InitLwc ==
    /\ tool = "create_lwc_component"
    /\ name \in NameInputs
    /\ table = NoObject
    /\ pc = "lwc_connect"
    /\ sf_connection = "None"
    /\ exists \in BOOLEAN
    /\ existed = exists
    /\ calls = <<>>
    /\ job_id = "null"
    /\ status = NONE
    /\ resp = NONE
    /\ raised = FALSE
    /\ timeout_seconds = PollTimeoutDefault
    /\ interval_seconds = PollIntervalDefault
    /\ elapsed = 0
    /\ latency \in 0..MaxDelay
    /\ PkgIdle
    /\ HistIdle
    /\ operation = "none"
    /\ stored_tokens \in {<<>>, <<"u1", "u2">>}
    /\ active_org = "None"
    /\ user_id = "None"
    /\ returned = "none"
    /\ SessionIdle
    /\ UtilIdle

NextLwc ==
    \/ \E ok \in BOOLEAN : LwcConnect(ok)
    \/ \E reply \in {"found", "none", "error"} : LwcExistenceQuery(reply)
    \/ \E reply \in JobIds \cup {"noid", "error"} : Submit(reply)
    \/ PollTimeout
    \/ \E reply \in StatusReplies, d \in DetailValues : PollStatusCheck(reply, d)
    \/ PollSleep

SpecLwc == InitLwc /\ [][NextLwc]_vars

\* ----------------------------------------------------- execute_soql_query
\* A query text is a sequence of pieces: words, blanks and punctuation.
QueryInputs ==
    { <<>>,
      <<" ">>,
      <<"Id">>,
      <<"drop">>,
      <<"select", " ", "Id">>,
      <<" ", "SELECT", " ", "Id">>,
      <<"SELECT", " ", "Id", ";">>,
      <<"select", " ", "drop">>,
      <<"SELECT", "-", "-">>,
      <<"SELECT", " ", "update", " ">>,
      <<"SELECT", "(">>,
      <<"SELECT", "(", ")">>,
      <<"SELECT", " ", "Id", " ", "FROM", " ", "Account">>,
      <<"select", "(", "(", ")">> }

\* str.upper(), piece by piece.
UpperPiece(w) ==
    CASE w = "select" -> "SELECT"
      [] w = "drop"   -> "DROP"
      [] w = "update" -> "UPDATE"
      [] w = "Id"     -> "ID"
      [] OTHER        -> w
upper(q) == [i \in 1..Len(q) |-> UpperPiece(q[i])]

\* str.strip()
RECURSIVE strip(_)
strip(q) ==
    IF q = <<>> THEN q
    ELSE IF q[1] = " " THEN strip(Tail(q))
    ELSE IF q[Len(q)] = " " THEN strip(SubSeq(q, 1, Len(q) - 1))
    ELSE q

\* str.startswith(p), `p in s` and str.count(ch)
startswith(q, p) == Len(q) >= Len(p) /\ SubSeq(q, 1, Len(p)) = p
contains(q, p) == \E i \in 1..(Len(q) - Len(p) + 1) : SubSeq(q, i, i + Len(p) - 1) = p
count(q, ch) == Len(SelectSeq(q, LAMBDA w : w = ch))

dangerous_patterns ==
    { <<"-", "-">>, <<"/", "*">>, <<";">>, <<"EXEC">>, <<"EXECUTE">>, <<"DROP">>,
      <<"DELETE", " ", "FROM">>, <<"UPDATE", " ">>, <<"INSERT", " ">> }

\* validators.validate_soql_query: "ok" when it returns True, otherwise the
\* reason of the ValidationError it raises.
validate_soql_query(q) ==
    LET query_upper == strip(upper(q))
    IN  IF q = <<>> THEN "SOQL query cannot be empty"
        ELSE IF ~startswith(query_upper, <<"SELECT">>) THEN "SOQL query must start with SELECT"
        ELSE IF \E p \in dangerous_patterns : contains(query_upper, p)
             THEN "SOQL query contains potentially dangerous pattern"
        ELSE IF count(q, "(") # count(q, ")") THEN "SOQL query has unbalanced parentheses"
        ELSE "ok"

\* Variant: the ValidationError is swallowed and the call goes on.
SoqlRejected_ignored(q) == FALSE

\* try: validate_soql_query(query) / except ValidationError as ve: return ...
SoqlRejected(q) == validate_soql_query(q) # "ok"

\* The response of the outer `except Exception as e`.
SoqlErrorResp(msg, q) == [success |-> FALSE, error |-> msg, query |-> q]

soql_frame ==
    UNCHANGED <<tool, name, table, exists, existed, job_id, status, timeout_seconds,
                interval_seconds, elapsed, latency>>

\* The validation at the top of execute_soql_query.
SoqlValidate ==
    /\ pc = "soql_validate"
    /\ IF SoqlRejected(query)
       THEN Return(ErrorResp(validate_soql_query(query)))
       ELSE Continue("soql_connect")
    /\ UNCHANGED <<sf_connection, calls>>
    /\ soql_frame

\* sf = get_salesforce_connection(); the log records that a connection was
\* asked for and what came back.
SoqlConnect(ok) ==
    /\ pc = "soql_connect"
    /\ sf_connection' = CacheAfter("None", ok)
    /\ calls' = Append(calls, Call("connect", "null", ConnectionResult("None", ok)))
    /\ IF ConnectionResult("None", ok) = "raised"
       THEN Return(SoqlErrorResp("no connection", query))
       ELSE Continue("soql_query")
    /\ soql_frame

\* sf.toolingexecute("query/?q=...") or sf.query(...), and the response
\* built from the result.
SoqlQuery(reply) ==
    /\ pc = "soql_query"
    /\ reply \in {"ok", "error"}
    /\ calls' = Append(calls, Call(IF use_tooling_api THEN "tooling" ELSE "query",
                                   "null", reply))
    /\ IF reply = "error"
       THEN Return(SoqlErrorResp("query failed", query))
       ELSE Return([success |-> TRUE, totalSize |-> 0, done |-> TRUE])
    /\ UNCHANGED sf_connection
    /\ soql_frame

InitSoql ==
    /\ tool = "execute_soql_query"
    /\ name = <<>>
    /\ table = NoObject
    /\ pc = "soql_validate"
    /\ sf_connection = "None"
    /\ exists = FALSE
    /\ existed = FALSE
    /\ calls = <<>>
    /\ job_id = "null"
    /\ status = NONE
    /\ resp = NONE
    /\ raised = FALSE
    /\ timeout_seconds = PollTimeoutDefault
    /\ interval_seconds = PollIntervalDefault
    /\ elapsed = 0
    /\ latency = 0
    /\ PkgIdle
    /\ HistIdle
    /\ operation = "none"
    /\ stored_tokens \in {<<>>, <<"u1", "u2">>}
    /\ active_org = "None"
    /\ user_id = "None"
    /\ returned = "none"
    /\ SessionIdle
    /\ max_attempts = 0
    /\ backoff = 0
    /\ exceptions = {}
    /\ on_retry = FALSE
    /\ attempt = 0
    /\ rpc = "idle"
    /\ trace = <<>>
    /\ outcome = NONE
    /\ records = 0
    /\ wait_for_completion = FALSE
    /\ query \in QueryInputs
    /\ use_tooling_api \in BOOLEAN

NextSoql ==
    \/ SoqlValidate
    \/ \E ok \in BOOLEAN : SoqlConnect(ok)
    \/ \E reply \in {"ok", "error"} : SoqlQuery(reply)

SpecSoql == InitSoql /\ [][NextSoql]_vars

\* ------------------------------------------------ calls of deploy_metadata
MetadataTypeInputs == {"ApexClass", "apex_class", "Flow", "Report"}
OperationInputs == {"create", "update", "upsert"}

NextMeta ==
    \/ \E mt \in MetadataTypeInputs, n \in NameInputs, json_ok \in BOOLEAN,
          op \in OperationInputs, lat \in 0..MaxDelay :
            DeployMetadata(mt, n, json_ok, op, lat)
    \/ Finish
    \/ \E ok \in BOOLEAN : Connect(ok)
    \/ \E reply \in {"found", "none", "error"} : ExistenceQuery(reply)
    \/ \E ok \in BOOLEAN : FetchFlowConnect(ok)
    \/ \E reply \in {"found", "none", "error"} : FetchFlowQuery(reply)
    \/ \E reply \in {"ok", "error"} : FetchFlowVersion(reply)
    \/ \E reply \in JobIds \cup {"noid", "error"} : Submit(reply)
    \/ PollTimeout
    \/ \E reply \in StatusReplies, d \in DetailValues : PollStatusCheck(reply, d)
    \/ PollSleep

SpecMeta == Init /\ [][NextMeta]_vars

\* ------------------------------------------ fetch calls, one after another
NextFetch ==
    \/ \E t \in FetchTools : \E in \in ToolInputs(t) : StartCall(t, in.n, in.o, in.j, 0)
    \/ Finish
    \/ \E ok \in BOOLEAN : Connect(ok)
    \/ \E reply \in {"found", "none", "error"} : FetchApexTooling(reply)
    \/ \E reply \in {"found", "none", "error"} : FetchApexCore(reply)
    \/ \E reply \in {"found", "none", "error"} : FetchFieldDescribe(reply)
    \/ \E reply \in {"found", "none", "error"} : FetchFieldTooling(reply)
    \/ Mutate

SpecFetch == Init /\ [][NextFetch]_vars

\* -------------------------------------- the package assembler called directly
MemberInputs == {"Pg", "A&B", "Account.Code__c"}
TypeInputs == {"ApexClass", "CustomField"}
VersionInputs == {"59.0", "61.0"}

InitPkg ==
    /\ tool = "none"
    /\ name = <<>>
    /\ table = NoObject
    /\ pc = "idle"
    /\ sf_connection = "None"
    /\ exists = FALSE
    /\ existed = FALSE
    /\ calls = <<>>
    /\ job_id = "null"
    /\ status = NONE
    /\ resp = NONE
    /\ raised = FALSE
    /\ timeout_seconds = PollTimeoutDefault
    /\ interval_seconds = PollIntervalDefault
    /\ elapsed = 0
    /\ latency = 0
    /\ members \in SeqUpTo(MemberInputs, MaxMembers)
    /\ metadata_type \in TypeInputs
    /\ api_version \in VersionInputs
    /\ pkg_xml = NONE
    /\ HistIdle
    /\ operation = "none"
    /\ stored_tokens = <<>>
    /\ active_org = "None"
    /\ user_id = "None"
    /\ returned = "none"
    /\ SessionIdle
    /\ UtilIdle

\* pkg_xml = _generate_package_xml(members, metadata_type, api_version)
GeneratePackageXml ==
    /\ pkg_xml = NONE
    /\ metadata_type # "null"
    /\ pkg_xml' = _generate_package_xml(members, metadata_type, api_version)
    /\ UNCHANGED <<members, metadata_type, api_version>>
    /\ UNCHANGED <<tool_vars, util_vars, hist_vars, operation, conn_vars>>

NextPkg == GeneratePackageXml

SpecPkg == InitPkg /\ [][NextPkg]_vars


\* =================================================================== claims
CeilDiv(a, b) == (a + b - 1) \div b

\* A job id was obtained from the submitter in this call.
Submitted == \E i \in 1..Len(calls) : calls[i].kind = "submit" /\ calls[i].reply \in JobIds

\* Every status reply so far said "not done".
NeverDone == \A i \in 1..Len(calls) : calls[i].reply = "notdone"

OutcomeStatuses == TerminalStatuses \cup {"Timeout"}

\* C1: when the platform answers N times "not done" and then done with
\* terminal status T before the deadline, the poller returns right at that
\* reply, i.e. after exactly N+1 status checks, with status = T and
\* success = (T in {Succeeded, SucceededPartial}).
C1_PollTerminalCoverage ==
    tool = PollerCall =>
        \A i \in 1..Len(calls) :
            calls[i].reply \in TerminalStatuses =>
                /\ i = Len(calls)
                /\ CountReply("status", "notdone") = i - 1
                /\ pc = "done"
                /\ ~raised
                /\ resp = status
                /\ resp.status = calls[i].reply
                /\ resp.success = (calls[i].reply \in {"Succeeded", "SucceededPartial"})

C1_Witness ==
    /\ tool = PollerCall
    /\ pc = "done"
    /\ Len(calls) = 3
    /\ calls[3].reply = "SucceededPartial"
    /\ resp = [success |-> TRUE, status |-> "SucceededPartial", details |-> "componentFailures"]

\* C2: while the platform never reports done, the poller issues at most
\* ceil(timeout_seconds / interval_seconds) + 1 status checks, raises
\* nothing, and what it returns is {success: false, status: Timeout}.
C2_PollTimeoutBound ==
    (tool = PollerCall /\ NeverDone) =>
        /\ Len(calls) <= CeilDiv(timeout_seconds, interval_seconds) + 1
        /\ ~raised
        /\ pc = "done" => resp = [success |-> FALSE, status |-> "Timeout"]

C2_Witness ==
    /\ tool = PollerCall
    /\ pc = "done"
    /\ NeverDone
    /\ timeout_seconds = 4
    /\ interval_seconds = 2
    /\ Len(calls) = 3
    /\ resp = [success |-> FALSE, status |-> "Timeout"]

\* C3 (as claimed): a deploy tool call that obtained a job id returns an
\* outcome for that job whose status is Succeeded, SucceededPartial,
\* Failed, Aborted or Timeout.
C3_OutcomeForEveryJob ==
    (tool \in DeployTools /\ pc = "done" /\ Submitted) =>
        /\ status # NONE
        /\ status.status \in OutcomeStatuses
        /\ Get(resp, "job_id") = job_id

\* A status check of this call failed: transport/HTTP error, or a reply the
\* poller could not read.
StatusCheckFailed ==
    \E i \in 1..Len(calls) :
        calls[i].kind = "status" /\ calls[i].reply \in {"error", "malformed"}

\* C3 (amended): a deploy tool call that obtained a job id returns an outcome
\* for that job with one of the five statuses, unless a status check failed,
\* in which case it returns a success=false response with the error text.
C3_OutcomeUnlessCheckFails ==
    (tool \in DeployTools /\ pc = "done" /\ Submitted) =>
        IF StatusCheckFailed
        THEN /\ status = NONE
             /\ resp \in {ErrorResp("HTTPError"), ErrorResp("KeyError")}
        ELSE /\ status # NONE
             /\ status.status \in OutcomeStatuses
             /\ Get(resp, "job_id") = job_id

C3_Witness ==
    /\ tool = "create_apex_class"
    /\ pc = "done"
    /\ Submitted
    /\ status = [success |-> FALSE, status |-> "Timeout"]
    /\ resp.job_id = "0Af2"

\* C4: a create_X tool called with a name the platform already holds
\* issues no deploy submit and returns a failure, the AlreadyExists one
\* when the existence query answered.
C4_CreateExistingNoSubmit ==
    (tool \in CreateTools /\ existed) =>
        /\ Count("submit") = 0
        /\ pc = "done" => ~resp.success
        /\ (pc = "done" /\ CountReply("query", "found") > 0) => resp = ErrorResp("already exists")

\* The pre-existence check of this call found nothing under the name.
FoundNothing ==
    \E i \in 1..Len(calls) :
        calls[i].kind \in {"query", "tooling", "describe"} /\ calls[i].reply = "none"

C6_InvalidNameNoNetwork ==
    (tool = "create_apex_trigger" /\ ~ValidApexName(name)) =>
        /\ calls = <<>>
        /\ (pc = "done" /\ sf_connection # "None") => resp = ErrorResp("Invalid name")

\* C7: when the poller returned an unsuccessful outcome with details D, the
\* response of the deploy tool has D under the key "errors".
C7_DetailsUnderErrors ==
    (tool \in DeployTools /\ pc = "done" /\ status # NONE /\ "details" \in DOMAIN status
       /\ ~status.success) =>
        /\ "errors" \in DOMAIN resp
        /\ resp.errors = status.details

\* C8: no exception leaves a tool function, whatever the platform answers.
C8_NoExceptionEscapes ==
    tool \in Tools => ~raised

\* C9: every response has a boolean success, and every response with
\* success=false has an error field.
C9_ResponseShape ==
    (tool \in Tools /\ pc = "done" /\ ~raised) =>
        /\ "success" \in DOMAIN resp
        /\ resp.success \in BOOLEAN
        /\ ~resp.success => "error" \in DOMAIN resp

\* C10: a deploy tool call issues at most one submit, and each status check
\* comes after a submit that returned a job id and targets that id.
C10_SubmitThenPoll ==
    tool \in DeployTools =>
        /\ Count("submit") <= 1
        /\ \A i \in 1..Len(calls) :
              calls[i].kind = "status" =>
                  \E j \in 1..(i - 1) :
                      /\ calls[j].kind = "submit"
                      /\ calls[j].reply \in JobIds
                      /\ calls[i].job = calls[j].reply

C10_Witness ==
    /\ tool = "upsert_custom_field"
    /\ pc = "done"
    /\ Count("submit") = 1
    /\ Count("status") = 2
    /\ calls[Len(calls) - 1].job = "0Af2"

\* C11: when a status check fails with a transport or HTTP error, the call
\* issues no further request (no retry), and the deploy tool returns a
\* success=false response that carries the error text.
C11_PollErrorNoRetry ==
    tool \in DeployTools =>
        \A i \in 1..Len(calls) :
            (calls[i].kind = "status" /\ calls[i].reply = "error") =>
                /\ i = Len(calls)
                /\ pc = "done"
                /\ ~raised
                /\ resp = [success |-> FALSE, error |-> "HTTPError"]

C11_Witness ==
    /\ tool = "create_flow"
    /\ pc = "done"
    /\ Len(calls) = 3
    /\ calls[2] = [kind |-> "status", job |-> "0Af1", reply |-> "notdone"]
    /\ calls[3] = [kind |-> "status", job |-> "0Af1", reply |-> "error"]
    /\ resp = [success |-> FALSE, error |-> "HTTPError"]

\* C12: a poll call sends nothing but GET status reads of its job, so no
\* request of it cancels or changes the job; and when it ends because the
\* deadline has passed, it returns {success: false, status: Timeout} as a
\* value, not an exception.
C12_TimeoutReadsOnly ==
    tool = PollerCall =>
        /\ \A i \in 1..Len(calls) :
              /\ calls[i].kind = "status"
              /\ Method(calls[i].kind) = "GET"
              /\ calls[i].job = job_id
        /\ exists = existed
        /\ (pc = "done" /\ elapsed > timeout_seconds /\ NeverDone) =>
              /\ ~raised
              /\ resp = [success |-> FALSE, status |-> "Timeout"]

C12_Witness ==
    /\ tool = PollerCall
    /\ pc = "done"
    /\ elapsed > timeout_seconds
    /\ timeout_seconds = 2
    /\ Len(calls) = 2
    /\ NeverDone
    /\ ~raised
    /\ resp = [success |-> FALSE, status |-> "Timeout"]

\* C13: when the poller timed out, the response of the deploy tool carries
\* the job id and a status that tells Timeout from Failed and Aborted.
C13_TimeoutDistinctStatus ==
    (tool \in DeployTools /\ pc = "done" /\ status = [success |-> FALSE, status |-> "Timeout"]) =>
        /\ Get(resp, "job_id") = job_id
        /\ "status" \in DOMAIN resp
        /\ resp.status = "Timeout"

\* C14: a submit answered without a job id ends the call: no status check
\* is issued and the deploy tool returns success=false with the
\* submitter's error.
C14_MissingIdFatal ==
    (tool \in DeployTools /\ CountReply("submit", "noid") > 0) =>
        /\ Count("status") = 0
        /\ calls[Len(calls)].kind = "submit"
        /\ pc = "done"
        /\ ~raised
        /\ resp = [success |-> FALSE, error |-> "Deploy response missing id"]

C14_Witness ==
    /\ tool = "upsert_apex_class"
    /\ pc = "done"
    /\ CountReply("submit", "noid") = 1
    /\ resp = [success |-> FALSE, error |-> "Deploy response missing id"]

\* A step of the field-level-security grant raised: any of its requests
\* except the chatter lookup, whose failure the code handles with a query.
FlsKinds == {"ps_query", "ps_create", "me", "me_query", "psa_query", "psa_create",
             "fp_query", "fp_create", "fp_update"}

FlsRaised ==
    \E i \in 1..Len(calls) :
        calls[i].kind \in FlsKinds \ {"me"} /\ calls[i].reply = "error"

XmlUnescape(text) == IF text = "A&amp;B" THEN "A&B" ELSE text

Positions(doc, tok) ==
    SelectSeq([i \in 1..Len(doc) |-> i], LAMBDA i : doc[i] = tok)

MembersRead(doc) ==
    LET at == Positions(doc, Tok("open", "members"))
    IN  [k \in 1..Len(at) |-> XmlUnescape(doc[at[k] + 1].v)]

\* C16: given an empty members list the assembler produces no package.
C16_EmptyMembersRejected ==
    members = <<>> => pkg_xml = NONE

\* C17: the package.xml has exactly one types block; its members entries,
\* all inside that block, are the input list in the same order with
\* duplicates kept, and its name is metadata_type.
C17_OneTypesBlock ==
    pkg_xml # NONE =>
        LET opens  == Positions(pkg_xml, Tok("open", "types"))
            closes == Positions(pkg_xml, Tok("close", "types"))
            at     == Positions(pkg_xml, Tok("open", "members"))
            names  == Positions(pkg_xml, Tok("open", "name"))
        IN  /\ Len(opens) = 1
            /\ Len(closes) = 1
            /\ MembersRead(pkg_xml) = members
            /\ \A k \in 1..Len(at) : opens[1] < at[k] /\ at[k] < closes[1]
            /\ Len(names) = 1
            /\ opens[1] < names[1] /\ names[1] < closes[1]
            /\ pkg_xml[names[1] + 1].v = metadata_type

C17_Witness ==
    /\ members = <<"A&B", "Pg", "A&B">>
    /\ metadata_type = "CustomField"
    /\ pkg_xml # NONE
    /\ Len(pkg_xml) = 19
    /\ MembersRead(pkg_xml) = <<"A&B", "Pg", "A&B">>

\* The call that just returned repeats the previous fetch call, and the
\* platform did not change from the start of that call until now.
SameFetchAgain ==
    /\ tool \in FetchTools
    /\ pc = "done"
    /\ prev # NONE
    /\ prev.tool = tool /\ prev.name = name /\ prev.table = table
    /\ ~changed_prev

AllAnswered ==
    /\ calls # <<>>
    /\ \A i \in 1..Len(calls) : calls[i].reply # "error"

\* C19: deploy_metadata with operation "create" fails without deploying when
\* the component exists, with "update" fails without deploying when it is
\* missing, and with "upsert" submits a deploy in both cases.
C19_DeployMetadataOperations ==
    (operation # "none" /\ tool \in DeployTools) =>
        /\ (operation = "create" /\ existed) =>
              /\ Count("submit") = 0
              /\ pc = "done" => ~resp.success
        /\ (operation = "update" /\ ~existed) =>
              /\ Count("submit") = 0
              /\ pc = "done" => ~resp.success
        /\ (operation = "upsert" /\ pc = "done" /\ AllAnswered /\ ValidApexName(name)) =>
              Count("submit") = 1

\* C20: get_salesforce_connection(user_id=u) with u among the stored tokens
\* returns a connection to org u, whatever earlier calls in the thread
\* returned.
C20_ConnectionForRequestedUser ==
    (user_id # "None" /\ user_id \in TokenUsers /\ returned \notin {"none", "raised"}) =>
        returned = user_id

\* C21: every connection get_salesforce_connection returns carries a token
\* whose age, counted from login or from the last refresh, is at most
\* token_refresh_threshold_seconds.
C21_ReturnedTokenFresh ==
    returned \notin {"none", "raised"} =>
        returned_age <= token_refresh_threshold_seconds

\* C27: once switch_active_org(u) has succeeded, a get_salesforce_connection()
\* call without user_id, in whichever thread, returns a connection to org u.
C27_SwitchReachesEveryThread ==
    (active_org # "None" /\ user_id = "None" /\ returned \notin {"none", "raised"}) =>
        returned = active_org

\* The i-th event of the trace is an invocation that raised a caught exception.
FailedCall(i) ==
    trace[i].ev = "call" /\ trace[i].x \in ExceptionTypes /\ trace[i].x \in exceptions

\* C22: a function wrapped with retry(max_attempts = n, exceptions = E),
\* n >= 1, is invoked at most n times; the wrapper returns the result of the
\* first invocation that does not raise; when n invocations in a row raised
\* an exception in E the n-th exception is re-raised; an exception outside E
\* propagates at once with no further invocation.
C22_RetryContract ==
    max_attempts >= 1 =>
        /\ Invocations <= max_attempts
        /\ \A i \in 1..Len(trace) :
              (trace[i].ev = "call" /\ trace[i].x \notin ExceptionTypes) =>
                  /\ i = Len(trace)
                  /\ rpc = "done"
                  /\ outcome = [kind |-> "returned", x |-> trace[i].x, k |-> trace[i].k]
                  /\ \A j \in 1..(i - 1) : trace[j].ev = "call" => FailedCall(j)
        /\ \A i \in 1..Len(trace) :
              (FailedCall(i) /\ trace[i].k = max_attempts) =>
                  /\ i = Len(trace)
                  /\ rpc = "done"
                  /\ outcome = Raised(trace[i].x, max_attempts)
        /\ \A i \in 1..Len(trace) :
              (trace[i].ev = "call" /\ trace[i].x \in ExceptionTypes \ exceptions) =>
                  /\ i = Len(trace)
                  /\ rpc = "done"
                  /\ outcome = Raised(trace[i].x, trace[i].k)

\* Three caught failures with max_attempts = 3: the third exception leaves
\* the wrapper.
C22_Witness ==
    /\ max_attempts = 3
    /\ Invocations = 3
    /\ rpc = "done"
    /\ outcome = Raised("E2", 3)
    /\ trace[1].x = "E1"

\* C23: between the k-th failed invocation and the next one
\* (1 <= k < max_attempts) the wrapper calls on_retry once with (k, the
\* exception), when a callback was passed, and then sleeps backoff^k; after
\* the last failed invocation there is neither a callback call nor a sleep.
C23_CallbackThenSleep ==
    /\ \A i \in 1..Len(trace) : \A j \in (i + 1)..Len(trace) :
          (/\ trace[i].ev = "call"
           /\ trace[j].ev = "call"
           /\ \A m \in (i + 1)..(j - 1) : trace[m].ev # "call") =>
              /\ FailedCall(i)
              /\ trace[i].k < max_attempts
              /\ SubSeq(trace, i + 1, j - 1) =
                    (IF on_retry THEN <<Event("on_retry", trace[i].k, trace[i].x)>> ELSE <<>>)
                    \o <<Event("sleep", Pow(backoff, trace[i].k), "null")>>
    /\ \A i \in 1..Len(trace) :
          (trace[i].ev = "call" /\ (trace[i].k = max_attempts \/ ~FailedCall(i))) =>
              i = Len(trace)

\* With backoff 3 and a callback: failure, on_retry(1, E1), sleep 3, failure,
\* on_retry(2, E2), sleep 9, and a third invocation.
C23_Witness ==
    /\ backoff = 3
    /\ on_retry
    /\ Len(trace) = 7
    /\ trace[2] = Event("on_retry", 1, "E1")
    /\ trace[3] = Event("sleep", 3, "null")
    /\ trace[5] = Event("on_retry", 2, "E2")
    /\ trace[6] = Event("sleep", 9, "null")
    /\ trace[7].ev = "call"

\* C24: upsert_custom_field submits a check-only (validation) deploy first,
\* and the actual deploy only after that validation deploy succeeded.
C24_ValidateBeforeDeploy ==
    tool = "upsert_custom_field" =>
        \A i \in 1..Len(calls) :
            calls[i].kind = "submit" =>
                \E j \in 1..(i - 1) : calls[j].kind = "validate" /\ calls[j].reply \in JobIds

\* The tools that deploy through deploy_apex_class_internal and
\* deploy_apex_trigger_internal.
InternalDeployTools == {"create_apex_class", "upsert_apex_class", "create_apex_trigger",
                        "upsert_apex_trigger"}

\* C25: the result a deploy_*_internal function returns has success=true
\* only when the terminal deploy status is Succeeded.
C25_InternalSuccessStrict ==
    (tool \in InternalDeployTools /\ status # NONE /\ WithJobId(status, job_id).success) =>
        status.status = "Succeeded"

\* A grant request of upsert_custom_field is in the log.
FlsIssued == \E i \in 1..Len(calls) : calls[i].kind \in FlsKinds

\* C26: in upsert_custom_field the permission-set lookup or creation, the
\* assignment and the field-permission write are issued only after the
\* poller returned success=true; after a Failed, Aborted or Timeout outcome
\* none of them is issued.
C26_GrantOnlyAfterSuccess ==
    tool = "upsert_custom_field" =>
        /\ (pc \in {"fls", "fls_ps_create", "fls_me"} \/ FlsIssued) =>
              (status # NONE /\ status.success)
        /\ (status # NONE /\ status.status \in {"Failed", "Aborted", "Timeout"}) =>
              (~FlsIssued /\ pc = "done" /\ ~resp.success)

\* After a Succeeded deploy the grant ran to its field-permission write.
C26_Witness ==
    /\ tool = "upsert_custom_field"
    /\ pc = "done"
    /\ status # NONE
    /\ status.status = "Succeeded"
    /\ Count("submit") = 1
    /\ CountReply("ps_query", "found") = 1
    /\ CountReply("psa_create", "ok") = 1
    /\ CountReply("fp_create", "ok") = 1
    /\ calls[Len(calls)].kind = "fp_create"
    /\ resp.success

\* Position of a bulk request in the documented order.
BulkRank(kind) ==
    CASE kind = "create_job"     -> 1
      [] kind = "upload"         -> 2
      [] kind = "close"          -> 3
      [] kind = "status"         -> 4
      [] kind = "failed_results" -> 5

\* The i-th request of the call was answered with an error or an unusable body.
BulkStepFailed(i) == calls[i].reply \in {"error", "noid"}

\* C28: bulk_insert_records issues create job, upload CSV, close job, status
\* checks, then at most one failed-results fetch, in that order; a step is
\* issued only if every earlier step succeeded; with
\* wait_for_completion=false no status check is issued.
C28_BulkOrder ==
    tool = "bulk_insert_records" =>
        /\ \A i \in 1..Len(calls) :
              /\ BulkRank(calls[i].kind) <= 3 => i = BulkRank(calls[i].kind)
              /\ BulkRank(calls[i].kind) > 3 => i > 3
              /\ i < Len(calls) =>
                    /\ ~BulkStepFailed(i)
                    /\ BulkRank(calls[i].kind) <= BulkRank(calls[i + 1].kind)
                    /\ calls[i].kind = "failed_results" => FALSE
              /\ (calls[i].kind = "failed_results" /\ i > 1) =>
                    (calls[i - 1].kind = "status" /\ calls[i - 1].reply \in BulkTerminalStates)
        /\ Count("failed_results") <= 1
        /\ ~wait_for_completion => Count("status") = 0

\* A waiting call that went through all five kinds of request.
C28_Witness ==
    /\ tool = "bulk_insert_records"
    /\ wait_for_completion
    /\ pc = "done"
    /\ Len(calls) = 6
    /\ calls[4] = Call("status", job_id, "InProgress")
    /\ calls[5] = Call("status", job_id, "Failed")
    /\ calls[6] = Call("failed_results", job_id, "200")
    /\ resp.failed_records = "csv"

\* C29: create_lwc_component called with the name of a bundle the platform
\* already holds fails and submits no deploy, both when the Tooling
\* existence query answers and when that query raises.
C29_LwcExistingNoSubmit ==
    (tool = "create_lwc_component" /\ existed) =>
        /\ Count("submit") = 0
        /\ pc = "done" => ~resp.success

\* C30: execute_soql_query validates the query before it acquires a
\* connection: for a query validate_soql_query rejects (empty, not starting
\* with SELECT, holding a blocked pattern, unbalanced parentheses) it
\* returns success=false, acquires no connection and makes no platform
\* request.
C30_RejectedQueryNoConnection ==
    (tool = "execute_soql_query" /\ validate_soql_query(query) # "ok") =>
        /\ calls = <<>>
        /\ sf_connection = "None"
        /\ pc \in {"soql_validate", "done"}
        /\ pc = "done" => resp = ErrorResp(validate_soql_query(query))

\* A query with a statement separator was turned away.
C30_Witness ==
    /\ tool = "execute_soql_query"
    /\ query = <<"SELECT", " ", "Id", ";">>
    /\ pc = "done"
    /\ resp = ErrorResp("SOQL query contains potentially dangerous pattern")
    /\ calls = <<>>

====
